---------------------------- MODULE Spec2Model ----------------------------
(***************************************************************************)
(* A model of wikifunc_labelize: the cached upstream fetcher and the label *)
(* resolver (labelize.rs), the language-selection renderer                 *)
(* (simple_value.rs, compact_key.rs), and the rewriting passes on          *)
(* IntermediateForm (intermediate_form.rs) and CompactValue                *)
(* (compact_value.rs).                                                     *)
(*                                                                         *)
(* Rust strings are modelled as sequences of one-character strings, so     *)
(* that the regular expressions, split('K') and format!() are computed     *)
(* character by character.  Option<T> is a set with at most one element.   *)
(***************************************************************************)
EXTENDS Integers, Sequences, FiniteSets, Bags, TLC

VARIABLES
    now,        \* the clock read by Instant::now()/elapsed(), in seconds
    cache,      \* the store of the #[cached] fetch: set of [key, fut, at]
    futures,    \* the Shared futures created so far, in creation order
    tasks,      \* each caller of _labelize_wrapped: its position and data
    node,       \* renderer: the LabelledNode handed to choose_lang
    langs,      \* renderer: the language preference
    rendered,   \* renderer: the string choose_lang returned, as Option
    form,       \* passes: the current tree, or a panic
    prev,       \* passes: the tree the last step was applied to
    lastPass,   \* passes: the name of the last step applied
    steps,      \* passes: how many rewriting passes have been applied
    changed,    \* passes: the rewriting passes that have changed the tree
    route,      \* route: the stages a request has run, with their results
    world,      \* labelize: what the upstream answers while a document is read
    slots,      \* labelize: the outputs of the lookups of the strings so far
    order       \* labelize: the lookups in the order of their completion

vars == <<now, cache, futures, tasks, node, langs, rendered,
          form, prev, lastPass, steps, changed, route, world, slots, order>>

resolverVars == <<now, cache, futures, tasks>>
rendererVars == <<node, langs, rendered>>
joinVars == <<world, slots, order>>
passVars == <<form, prev, lastPass, steps, changed, route, joinVars>>

-----------------------------------------------------------------------------
(* Strings *)

\* The byte value of a character: String's Ord is bytewise.
Code(c) ==
    CASE c = "'" -> 39
      [] c = "0" -> 48 [] c = "1" -> 49 [] c = "2" -> 50 [] c = "3" -> 51
      [] c = "4" -> 52 [] c = "5" -> 53 [] c = "6" -> 54 [] c = "7" -> 55
      [] c = "8" -> 56 [] c = "9" -> 57
      [] c = ":" -> 58 [] c = " " -> 32 [] c = "<" -> 60 [] c = ">" -> 62
      [] c = "!" -> 33
      [] c = "K" -> 75 [] c = "Z" -> 90
      [] c = "a" -> 97 [] c = "b" -> 98 [] c = "c" -> 99 [] c = "d" -> 100
      [] c = "e" -> 101 [] c = "h" -> 104 [] c = "k" -> 107 [] c = "l" -> 108
      [] c = "n" -> 110 [] c = "o" -> 111 [] c = "t" -> 116 [] c = "x" -> 120
      [] c = "y" -> 121 [] c = "z" -> 122
      [] OTHER -> 127

Digits == {"0", "1", "2", "3", "4", "5", "6", "7", "8", "9"}

RECURSIVE StrLess(_, _)
\* a < b for Rust Strings (lexicographic on bytes)
StrLess(a, b) ==
    IF b = <<>> THEN FALSE
    ELSE IF a = <<>> THEN TRUE
    ELSE IF Code(Head(a)) # Code(Head(b)) THEN Code(Head(a)) < Code(Head(b))
    ELSE StrLess(Tail(a), Tail(b))

\* a pattern without its end anchor, r"^Z\d+"
IsZNumberUnanchored(s) == Len(s) >= 2 /\ s[1] = "Z" /\ s[2] \in Digits

\* Regex::new(r"^Z\d+$").is_match(s)
IsZNumber(s) ==
    /\ Len(s) >= 2
    /\ s[1] = "Z"
    /\ \A i \in 2..Len(s) : s[i] \in Digits

\* Regex::new(r"^Z\d+K\d+$").is_match(s)
IsGlobalKey(s) ==
    /\ Len(s) >= 4
    /\ s[1] = "Z"
    /\ \E k \in 3..(Len(s) - 1) :
          /\ s[k] = "K"
          /\ \A i \in 2..(k - 1) : s[i] \in Digits
          /\ \A i \in (k + 1)..Len(s) : s[i] \in Digits

\* s.split('K').collect::<Vec<_>>()[0]: the text before the first 'K'
SplitK0(s) ==
    LET ks == {i \in 1..Len(s) : s[i] = "K"}
    IN  IF ks = {} THEN s
        ELSE SubSeq(s, 1, (CHOOSE i \in ks : \A j \in ks : i <= j) - 1)

-----------------------------------------------------------------------------
(* String literals of the source *)

Z1K1 == <<"Z", "1", "K", "1">>
Z2K2 == <<"Z", "2", "K", "2">>
Z2K3 == <<"Z", "2", "K", "3">>
Z3 == <<"Z", "3">>
Z3K2 == <<"Z", "3", "K", "2">>
Z3K3 == <<"Z", "3", "K", "3">>
Z6 == <<"Z", "6">>
Z6K1 == <<"Z", "6", "K", "1">>
Z7 == <<"Z", "7">>
Z9 == <<"Z", "9">>
Z9K1 == <<"Z", "9", "K", "1">>
Z11 == <<"Z", "1", "1">>
Z11K1 == <<"Z", "1", "1", "K", "1">>
Z11K2 == <<"Z", "1", "1", "K", "2">>
Z12 == <<"Z", "1", "2">>
Z12K1 == <<"Z", "1", "2", "K", "1">>
Z1002 == <<"Z", "1", "0", "0", "2">>
Z1006 == <<"Z", "1", "0", "0", "6">>
Z1830 == <<"Z", "1", "8", "3", "0">>
K_query == <<"q", "u", "e", "r", "y">>
K_zobjects == <<"w", "i", "k", "i", "l", "a", "m", "b", "d", "a", "l", "o", "a", "d", "_", "z", "o", "b", "j", "e", "c", "t", "s">>
K_data == <<"d", "a", "t", "a">>
NoLabel == <<"<", "n", "o", " ", "l", "a", "b", "e", "l", ">">>

-----------------------------------------------------------------------------
(* serde_json::Value *)

JStr(s) == [j |-> "String", str |-> s]
JArr(items) == [j |-> "Array", items |-> items]
\* serde_json's Map is a BTreeMap<String, Value>: a set of <<key, value>>
\* with one pair per key, iterated in key order
JObj(map) == [j |-> "Object", map |-> map]
JNull == [j |-> "Null"]

\* Value::get(key): None unless the value is an object holding the key
Get(v, key) ==
    IF v.j = "Object" THEN {p[2] : p \in {q \in v.map : q[1] = key}} ELSE {}

\* Option::unwrap of a set known to hold one element
The(opt) == CHOOSE x \in opt : TRUE

RECURSIVE SortedEntries(_)
\* Map::iter(): the pairs in ascending key order
SortedEntries(map) ==
    IF map = {} THEN <<>>
    ELSE LET first == CHOOSE p \in map : \A q \in map : ~StrLess(q[1], p[1])
         IN  <<first>> \o SortedEntries(map \ {first})

\* Iterator::find / next: the first element of a sequence in a set of
\* indices, as Option
FirstAt(seq, idx) ==
    IF idx = {} THEN {} ELSE {seq[CHOOSE i \in idx : \A k \in idx : i <= k]}

-----------------------------------------------------------------------------
(* labelize.rs: the upstream fetcher *)

\* std::result::Result<_, MyError>; a panicking computation is Panic
Ok(v) == [ok |-> TRUE, val |-> v]
Err(kind, msg) == [ok |-> FALSE, kind |-> kind, msg |-> msg]
Panic == [panic |-> TRUE]
IsPanic(r) == "panic" \in DOMAIN r
IsOk(r) == ~IsPanic(r) /\ r.ok
IsErr(r) == ~IsPanic(r) /\ ~r.ok

\* What reqwest::get and res.text() can deliver: a transport failure, a
\* response whose body cannot be read, a body that is not JSON, or a JSON
\* body.
NetFail == [net |-> FALSE]
BodyLost == [net |-> TRUE, text |-> FALSE]
NotJson == [net |-> TRUE, text |-> TRUE, parsed |-> FALSE]
Body(v) == [net |-> TRUE, text |-> TRUE, parsed |-> TRUE, json |-> v]

\* the body of the fetcher, from the HTTP response on
_fetch(z_number, resp) ==
    IF ~resp.net THEN Err("NetworkError", "transport")
    ELSE IF ~resp.text THEN Panic
    ELSE IF ~resp.parsed
    THEN Err("SchemaError", "failed parsing wikifunction response")
    ELSE LET query == Get(resp.json, K_query) IN
    IF query = {}
    THEN Err("SchemaError", "no query key in wikifunction response")
    ELSE LET zobjects == Get(The(query), K_zobjects) IN
    IF zobjects = {}
    THEN Err("SchemaError",
             "no wikilambdaload_zobjects key in wikifunction response")
    ELSE LET self == Get(The(zobjects), z_number) IN
    IF self = {}
    THEN Err("SchemaError", "no key for self in wikifunction response")
    ELSE LET data == Get(The(self), K_data) IN
    IF data = {}
    THEN Err("SchemaError", "no data key in wikifunction response")
    ELSE Ok(The(data))

-----------------------------------------------------------------------------
(* simple_value.rs: StringType and LabelledNode *)

\* StringType::String(s)
String(s) == [t |-> "String", str |-> s]
\* StringType::LabelledNode(LabelledNode::from(readable_labels, z_label));
\* the BTreeMap<String, String> is a set of <<lang, label>>, one per lang
LabelledNode(readable_labels, z_label) ==
    [t |-> "LabelledNode", readable_labels |-> readable_labels,
     z_label |-> z_label]

\* BTreeMap::insert: a later pair replaces an earlier one of the same key
MapInsert(m, k, v) == {p \in m : p[1] # k} \cup {<<k, v>>}

RECURSIVE CollectMap(_)
\* collect::<BTreeMap<_, _>>() of a sequence of pairs
CollectMap(pairs) ==
    IF pairs = <<>> THEN {}
    ELSE MapInsert(CollectMap(SubSeq(pairs, 1, Len(pairs) - 1)),
                   pairs[Len(pairs)][1], pairs[Len(pairs)][2])

\* BTreeMap::get as Option
MapGet(m, k) == {p[2] : p \in {q \in m : q[1] = k}}

\* a renderer that ignores the language preference
NoPreferredLabel(n, ls) == {}

\* langs.iter().find_map(|lang| self.readable_labels.get(lang))
PreferredLabel(n, ls) ==
    LET present == {i \in DOMAIN ls : MapGet(n.readable_labels, ls[i]) # {}}
    IN  IF present = {} THEN {}
        ELSE MapGet(n.readable_labels,
                    ls[CHOOSE i \in present : \A k \in present : i <= k])

\* self.readable_labels.iter().map(|(_lang, label)| label).next(): the label
\* of the least language
FirstLabel(n) ==
    {p[2] : p \in {q \in n.readable_labels :
                      \A o \in n.readable_labels : o = q \/ StrLess(q[1], o[1])}}

\* LabelledNode::choose_lang
LabelledNode_choose_lang(n, ls) ==
    LET preferred == PreferredLabel(n, ls)
        first == FirstLabel(n)
    IN  n.z_label \o <<":", " ">> \o
           (IF preferred # {} THEN The(preferred)
            ELSE IF first # {} THEN The(first)
            ELSE NoLabel)

\* StringType::choose_lang
StringType_choose_lang(st, ls) ==
    IF st.t = "String" THEN st.str ELSE LabelledNode_choose_lang(st, ls)

-----------------------------------------------------------------------------
(* labelize.rs: the label resolver *)

\* the label as the upstream gives it
Unquoted(text) == text

\* format!("'{}'", text)
Quote(text) == <<"'">> \o text \o <<"'">>

\* One item of Z12K1 as Result<(String, String)>; quoted says whether the
\* label is wrapped in quotes (the global-key branch).
LabelPair(v, quoted) ==
    LET k1 == Get(v, Z11K1) IN
    IF k1 = {} THEN Err("SchemaError", "no key Z11K1 in item of Z12K1")
    ELSE IF The(k1).j # "String"
    THEN Err("SchemaError", "value of Z11K1 not a str")
    ELSE LET k2 == Get(v, Z11K2) IN
    IF k2 = {} THEN Err("SchemaError", "no key Z11K1 in item of Z12K1")
    ELSE IF The(k2).j # "String"
    THEN Err("SchemaError", "value of Z11K2 not a str")
    ELSE Ok(<<The(k1).str,
              IF quoted THEN Quote(The(k2).str) ELSE The(k2).str>>)

\* .as_array()?.iter().skip(1).map(..).collect::<Result<BTreeMap, _>>():
\* the first failing item decides, else the map of all items
ReadableLabels(z12k1, quoted) ==
    IF z12k1.j # "Array" THEN Err("SchemaError", "Z12K1 is not an array")
    ELSE LET items == z12k1.items
             rest == 2..Len(items)
             res == [i \in rest |-> LabelPair(items[i], quoted)]
             bad == {i \in rest : ~res[i].ok}
         IN  IF bad # {}
             THEN res[CHOOSE i \in bad : \A k \in bad : i <= k]
             ELSE Ok(CollectMap([i \in 1..(Len(items) - 1) |->
                                    res[i + 1].val]))

\* the branch of _labelize for ^Z\d+$, from the fetched result on
LabelizeZNumber(s, fetched) ==
    IF IsPanic(fetched) THEN Panic
    ELSE IF ~fetched.ok THEN fetched
    ELSE LET z2k3 == Get(fetched.val, Z2K3) IN
    IF z2k3 = {}
    THEN Err("SchemaError",
             "wikifunction response is not a Persistent Object, no Z2K3 key")
    ELSE LET z12k1 == Get(The(z2k3), Z12K1) IN
    IF z12k1 = {}
    THEN Err("SchemaError",
             "no Z12K1 (Multilingual Text) key in Persistent Object")
    ELSE LET labels == ReadableLabels(The(z12k1), FALSE) IN
    IF ~labels.ok THEN labels
    ELSE Ok(LabelledNode(labels.val, s))

\* |(_k, v)| match v { String(vs) => vs == s,
\*                     Object(vo) => vo.iter().any(|(_k, vv)| *vv == String(s)),
\*                     _ => false }
MentionsKey(o, s) ==
    \E p \in o.map :
        \/ p[2].j = "String" /\ p[2].str = s
        \/ p[2].j = "Object" /\ \E q \in p[2].map : q[2] = JStr(s)

\* v.iter().filter_map(|x| x.as_object()).find(|o| ..): the first object of
\* the array that mentions s
FindElement(arr, s) ==
    FirstAt(arr, {i \in 1..Len(arr) :
                     arr[i].j = "Object" /\ MentionsKey(arr[i], s)})

\* the search of label_val: Some(Option) is what .next() gives at line 158
\* (unwrapped at 159), then .find(..) at 162 (unwrapped at 163)
MatchedElement(z2k2, s) ==
    LET entries == SortedEntries(z2k2.map)
        arrays == {i \in 1..Len(entries) :
                      /\ entries[i][2].j = "Array"
                      /\ Len(entries[i][2].items) > 1
                      /\ entries[i][2].items[2].j = "Object"
                      /\ FindElement(entries[i][2].items, s) # {}}
    IN  IF arrays = {} THEN {}
        ELSE FindElement(The(FirstAt(entries, arrays))[2].items, s)

LabelVal(element) ==
    LET fields == SortedEntries(element.map)
    IN  { p[2] : p \in
            FirstAt(fields, {i \in 1..Len(fields) :
                                /\ fields[i][2].j = "Object"
                                /\ Get(fields[i][2], Z1K1) = {JStr(Z12)}}) }

\* the branch of _labelize for ^Z\d+K\d+$, from the fetched result on
LabelizeGlobalKey(s, fetched) ==
    IF IsPanic(fetched) THEN Panic
    ELSE IF ~fetched.ok THEN fetched
    ELSE LET z2k2 == Get(fetched.val, Z2K2) IN
    IF z2k2 = {}
    THEN Err("SchemaError",
             "wikifunction response is not a Persistent Object, no Z2K2 key")
    ELSE IF The(z2k2).j # "Object"
    THEN Err("SchemaError", "value of Z2K2 is not object")
    ELSE LET element == MatchedElement(The(z2k2), s) IN
    IF element = {} THEN Panic
    ELSE LET label_val == LabelVal(The(element)) IN
    IF label_val = {} THEN Panic
    ELSE LET z12k1 == Get(The(label_val), Z12K1) IN
    IF z12k1 = {}
    THEN Err("SchemaError", "no Z12K1 key in wikifunction response")
    ELSE LET labels == ReadableLabels(The(z12k1), TRUE) IN
    IF ~labels.ok THEN labels
    ELSE Ok(LabelledNode(labels.val, s))

\* which identifier _labelize fetches for s, as Option
FetchKey(s) ==
    IF IsZNumber(s) THEN {s}
    ELSE IF IsGlobalKey(s) THEN {SplitK0(s)}
    ELSE {}

\* _labelize(s) once the awaited fetch has given `fetched`
_labelize(s, fetched) ==
    IF IsZNumber(s) THEN LabelizeZNumber(s, fetched)
    ELSE IF IsGlobalKey(s) THEN LabelizeGlobalKey(s, fetched)
    ELSE Ok(String(s))

\* a resolver that names a labelled node after the identifier it fetched
WrappedUnderOwner(s, fetched) ==
    IF s = <<>> THEN String(s)
    ELSE LET r == _labelize(s, fetched)
         IN  IF IsPanic(r) THEN Panic
             ELSE IF ~r.ok THEN String(s)
             ELSE IF r.val.t = "String" THEN r.val
             ELSE LabelledNode(r.val.readable_labels, The(FetchKey(s)))

\* match _labelize(s).await { Ok(out) => out, Err(_) => String(s) }
_labelize_wrapped(s, fetched) ==
    IF s = <<>> THEN String(s)
    ELSE LET r == _labelize(s, fetched)
         IN  IF IsPanic(r) THEN Panic
             ELSE IF r.ok THEN r.val
             ELSE String(s)

-----------------------------------------------------------------------------
(* The upstream API: what a request for identifier z may be answered with *)

Txt(c) == <<c>>
K1of(z) == z \o <<"K", "1">>
K2of(z) == z \o <<"K", "2">>

\* {"Z1K1": "Z11", "Z11K1": lang, "Z11K2": text}
Mono(lang, text) ==
    JObj({<<Z1K1, JStr(Z11)>>, <<Z11K1, JStr(lang)>>, <<Z11K2, JStr(text)>>})
\* {"Z1K1": "Z12", "Z12K1": ["Z11", items...]}
Multi(items) ==
    JObj({<<Z1K1, JStr(Z12)>>, <<Z12K1, JArr(<<JStr(Z11)>> \o items)>>})
\* a key declaration {"Z1K1": "Z3", "Z3K2": id, "Z3K3": label}
KeyDecl(id, label) ==
    JObj({<<Z1K1, JStr(Z3)>>, <<Z3K2, id>>, <<Z3K3, label>>})
\* the identifier wrapped as {"Z1K1": "Z6", "Z6K1": id}
Wrapped(id) == JObj({<<Z1K1, JStr(Z6)>>, <<Z6K1, JStr(id)>>})

\* a persistent object with labels for itself and for its two keys
GoodDoc(z) ==
    JObj({<<Z2K2, JObj({<<Z1K1, JStr(z)>>,
                        <<K1of(z), JStr(z)>>,
                        <<K2of(z), JArr(<<JStr(Z3),
                             KeyDecl(JStr(K1of(z)),
                                     Multi(<<Mono(Z1002, Txt("a"))>>)),
                             KeyDecl(Wrapped(K2of(z)),
                                     Multi(<<Mono(Z1002, Txt("b")),
                                             Mono(Z1006, Txt("c"))>>))>>)>>})>>,
          <<Z2K3, Multi(<<Mono(Z1002, Txt("d")), Mono(Z1006, Txt("e"))>>)>>})

\* neither Z2K2 nor Z2K3
BareDoc == JObj({})

\* Z2K2 is not an object, Z12K1 is not an array
WrongTypesDoc == JObj({<<Z2K2, JStr(Z3)>>, <<Z2K3, JObj({<<Z12K1, JStr(Z3)>>})>>})

\* items of Z12K1 without Z11K2 or with a non-string Z11K2; a label of the
\* first key without Z12K1
BadItemsDoc(z) ==
    JObj({<<Z2K2, JObj({<<K2of(z), JArr(<<JStr(Z3),
                             KeyDecl(JStr(K1of(z)), JObj({<<Z1K1, JStr(Z12)>>})),
                             KeyDecl(JStr(K2of(z)),
                                     Multi(<<JObj({<<Z11K1, JStr(Z1002)>>})>>))>>)>>})>>,
          <<Z2K3, Multi(<<JObj({<<Z11K1, JStr(Z1002)>>, <<Z11K2, JNull>>})>>)>>})

\* no element of any array of Z2K2 mentions a key of z; no labels for z
NoMatchDoc(z) ==
    JObj({<<Z2K2, JObj({<<K2of(z), JArr(<<JStr(Z3),
                             KeyDecl(JStr(K1of(Z7)),
                                     Multi(<<Mono(Z1002, Txt("a"))>>))>>)>>})>>,
          <<Z2K3, Multi(<<>>)>>})

\* the elements mention the keys of z but hold no Z12 object
NoZ12Doc(z) ==
    JObj({<<Z2K2, JObj({<<K2of(z), JArr(<<JStr(Z3),
                             JObj({<<Z3K2, JStr(K1of(z))>>}),
                             KeyDecl(JStr(K2of(z)), Mono(Z1002, Txt("a")))>>)>>})>>,
          <<Z2K3, JObj({})>>})

\* two labels of one language for z and for its first key; an empty list of
\* labels for its second key
DupDoc(z) ==
    JObj({<<Z2K2, JObj({<<K2of(z), JArr(<<JStr(Z3),
                             KeyDecl(JStr(K1of(z)),
                                     Multi(<<Mono(Z1002, Txt("a")),
                                             Mono(Z1002, Txt("b"))>>)),
                             KeyDecl(JStr(K2of(z)), Multi(<<>>))>>)>>})>>,
          <<Z2K3, Multi(<<Mono(Z1002, Txt("d")), Mono(Z1002, Txt("e"))>>)>>})

DataDocs(z) ==
    {GoodDoc(z), BareDoc, WrongTypesDoc, BadItemsDoc(z), NoMatchDoc(z),
     NoZ12Doc(z), DupDoc(z)}

\* {"query": {"wikilambdaload_zobjects": {z: {"data": doc}}}}
Envelope(z, doc) ==
    JObj({<<K_query, JObj({<<K_zobjects,
                             JObj({<<z, JObj({<<K_data, doc>>})>>})>>})>>})

Responses(z) ==
    {NetFail, BodyLost, NotJson,
     Body(JObj({})),
     Body(JObj({<<K_query, JObj({})>>})),
     Body(JObj({<<K_query, JObj({<<K_zobjects, JObj({})>>})>>})),
     Body(JObj({<<K_query, JObj({<<K_zobjects, JObj({<<z, JObj({})>>})>>})>>}))}
    \cup {Body(Envelope(z, doc)) : doc \in DataDocs(z)}

-----------------------------------------------------------------------------
(* labelize.rs: the cached fetch and its callers, as a state machine *)

\* #[cached(time = 600)]: the lifespan of an entry, in seconds
TTL == 600
\* bounds of the model: concurrent callers, upstream requests, and the
\* clock's horizon in lifespans
NTasks == 2
MaxFutures == 2
MaxPeriods == 1

\* the instants at which callers look at the clock: the last second of a
\* lifespan counted from the start, and the first second after it
Instants ==
    {0} \cup {k * TTL - 1 : k \in 1..MaxPeriods}
        \cup {k * TTL : k \in 1..MaxPeriods}

Z4 == <<"Z", "4">>
\* the strings handed to _labelize_wrapped
Inputs ==
    {<<>>, <<"h", "e", "l", "l", "o">>, <<"Z">>, <<"Z", "4", "K">>,
     <<"Z", "K", "1">>, <<"a", "Z", "4">>, <<"Z", "4", "a">>,
     <<"Z", "4", "K", "1", "K", "2">>,
     Z4, K1of(Z4), K2of(Z4), Z11}
\* those handed to it by concurrent callers while the clock runs
TimedInputs == {Z4, Z11}

\* what the upstream answers in the state machine: a failure or a document
Answers(z) == {NetFail, Body(Envelope(z, GoodDoc(z)))}

NoOut == [t |-> "none"]

InitRenderer == node = LabelledNode({}, Z4) /\ langs = <<>> /\ rendered = {}

\* no lookup of a document under way
NoJoin == world = "offline" /\ slots = <<>> /\ order = <<>>

InitPasses ==
    /\ form = NoOut /\ prev = NoOut /\ lastPass = "none"
    /\ steps = 0 /\ changed = {} /\ route = <<>>
    /\ NoJoin

\* the clock, the store of fetch (key -> Shared future, insertion time), the
\* futures made so far, and the calls of _labelize_wrapped in progress (a bag:
\* callers are interchangeable)
InitResolver ==
    /\ now = 0
    /\ cache = {}
    /\ futures = <<>>
    /\ tasks = EmptyBag

Init == InitResolver /\ InitRenderer /\ InitPasses

\* a store that serves successes and requests in flight, never a failure
CacheHitUnlessErr(key) ==
    \E e \in cache :
        /\ e.key = key
        /\ now - e.at < TTL
        /\ \A res \in futures[e.fut].result : res.ok

\* TimedCache::cache_get: an entry is served while
\* instant.elapsed().as_secs() < seconds; an older one is removed
CacheHit(key) == \E e \in cache : e.key = key /\ now - e.at < TTL

\* the handle fetch(key) returns: the cached Shared future on a hit, else a
\* new one (the next index)
FetchHandle(key) ==
    IF CacheHit(key) THEN (CHOOSE e \in cache : e.key = key).fut
    ELSE Len(futures) + 1

\* the store of a cache built with refresh = true: a hit restarts the
\* entry's lifespan
CacheAfterFetchRefreshed(key) ==
    IF \E e \in cache : e.key = key /\ now - e.at < TTL
    THEN {IF e.key = key THEN [e EXCEPT !.at = now] ELSE e : e \in cache}
    ELSE {e \in cache : e.key # key}
            \cup {[key |-> key, fut |-> Len(futures) + 1, at |-> now]}

\* the store after fetch(key): unchanged on a hit (time = 600 sets no
\* refresh); on a miss the expired entry is gone and the new future is set
CacheAfterFetch(key) ==
    IF CacheHit(key) THEN cache
    ELSE {e \in cache : e.key # key}
            \cup {[key |-> key, fut |-> Len(futures) + 1, at |-> now]}

One(task) == SetToBag({task})

\* _labelize_wrapped(s) up to its first suspension (or to its end).  The
\* caller notes whether fetch served it a finished future.
\* fetch() is synchronous, and the .await that follows polls the Shared
\* future at once: a new future sends its request in this very step.
Call(s) ==
    /\ BagCardinality(tasks) < NTasks
    /\ IF FetchKey(s) = {}
       THEN /\ tasks' = tasks (+) One([pc |-> "done", s |-> s, fut |-> 0,
                                       served |-> FALSE,
                                       out |-> _labelize_wrapped(s, Panic)])
            /\ UNCHANGED <<cache, futures>>
       ELSE LET key == The(FetchKey(s))
                hit == CacheHit(key)
                f == FetchHandle(key)
                futs == IF hit THEN futures
                        ELSE Append(futures,
                                    [key |-> key, at |-> now, result |-> {}])
                ready == futs[f].result # {}
            IN  /\ hit \/ Len(futures) < MaxFutures
                /\ cache' = CacheAfterFetch(key)
                /\ futures' = futs
                /\ tasks' = tasks (+) One(
                      [pc |-> IF ready THEN "done" ELSE "waiting",
                       s |-> s,
                       fut |-> f,
                       served |-> ready,
                       out |-> IF ready
                               THEN _labelize_wrapped(s, The(futs[f].result))
                               ELSE NoOut])
    /\ UNCHANGED <<now, rendererVars, passVars>>

\* the upstream answers the request of future f; _fetch runs to its end
Respond(f, resp) ==
    /\ f \in DOMAIN futures
    /\ futures[f].result = {}
    /\ futures' = [futures EXCEPT ![f].result = {_fetch(futures[f].key, resp)}]
    /\ UNCHANGED <<now, cache, tasks, rendererVars, passVars>>

\* a waiting caller is polled again: it clones the result and runs the rest
\* of _labelize and _labelize_wrapped
Resume(task) ==
    /\ BagIn(task, tasks)
    /\ task.pc = "waiting"
    /\ futures[task.fut].result # {}
    /\ tasks' = (tasks (-) One(task)) (+) One(
                   [task EXCEPT !.pc = "done",
                                !.out = _labelize_wrapped(task.s,
                                            The(futures[task.fut].result))])
    /\ UNCHANGED <<now, cache, futures, rendererVars, passVars>>

\* the caller takes its result (or its panic has unwound)
Return(task) ==
    /\ BagIn(task, tasks)
    /\ task.pc = "done"
    /\ tasks' = tasks (-) One(task)
    /\ UNCHANGED <<now, cache, futures, rendererVars, passVars>>

\* time passes
Tick(t) ==
    /\ t > now
    /\ now' = t
    /\ UNCHANGED <<cache, futures, tasks, rendererVars, passVars>>

Next ==
    \/ \E s \in TimedInputs : Call(s)
    \/ \E f \in DOMAIN futures : \E resp \in Answers(futures[f].key) :
          Respond(f, resp)
    \/ \E task \in BagToSet(tasks) : Resume(task)
    \/ \E task \in BagToSet(tasks) : Return(task)
    \/ \E t \in Instants : Tick(t)

Spec == Init /\ [][Next]_vars

-----------------------------------------------------------------------------
(* The cached fetch: requests in flight, requests per lifespan, expiry *)

Waiting == {r \in BagToSet(tasks) : r.pc = "waiting"}
Done == {r \in BagToSet(tasks) : r.pc = "done"}
InFlight == {f \in DOMAIN futures : futures[f].result = {}}

\* C1: for every identifier there is at most one upstream request in flight,
\* and the callers waiting for that identifier all wait for that one request
\* (so they receive the same result).
C1_OneRequestInFlight ==
    /\ \A f, g \in InFlight : futures[f].key = futures[g].key => f = g
    /\ \A r, q \in Waiting :
          futures[r.fut].key = futures[q.fut].key => r.fut = q.fut

\* C2: two upstream requests for one identifier are at least a lifespan
\* apart, whatever the first one's result: the fetches made within the TTL
\* of a request issue no other, and those served a finished request get its
\* result, a failure like a success.
C2_OneRequestPerLifespan ==
    /\ \A f, g \in DOMAIN futures :
          f < g /\ futures[f].key = futures[g].key
             => futures[g].at >= futures[f].at + TTL
    /\ \A r \in Done :
          r.served => r.out = _labelize_wrapped(r.s, The(futures[r.fut].result))

\* a caller was served the failure of a request made earlier, in the last
\* second of its lifespan at the earliest, and no second request was made
C2_FailureServedAgain ==
    \E r \in Done :
        /\ r.served
        /\ ~The(futures[r.fut].result).ok
        /\ r.out = String(r.s)
        /\ now = futures[r.fut].at + TTL - 1
        /\ \A f \in DOMAIN futures : futures[f].key = futures[r.fut].key => f = r.fut

\* the callers that entered in this step
Entered ==
    IF BagCardinality(tasks') = BagCardinality(tasks) + 1
    THEN {r \in BagToSet(tasks') : CopiesIn(r, tasks') > CopiesIn(r, tasks)}
    ELSE {}

\* C3: the request whose future a fetch returns was issued less than TTL
\* seconds before, however often the entry was read; so the first fetch of
\* an identifier whose requests are all older gets a new request.
C3_BoundedLifetime ==
    [][\A r \in Entered :
          /\ now - futures'[r.fut].at < TTL
          /\ (\A f \in DOMAIN futures :
                 futures[f].key = futures'[r.fut].key
                    => now - futures[f].at >= TTL)
                => r.fut = Len(futures) + 1 /\ Len(futures') = Len(futures) + 1]_vars

\* an entry was read in the last second of its lifespan and has been replaced
\* by a new request after its expiry
C3_RefetchedAfterExpiry ==
    \E f, g \in DOMAIN futures :
        /\ f < g
        /\ futures[f].key = futures[g].key
        /\ futures[g].at = futures[f].at + TTL
        /\ [key |-> futures[g].key, fut |-> g, at |-> futures[g].at] \in cache
        /\ \E r \in Done : r.fut = f /\ r.served

\* one caller at a time, every input and every answer of the upstream, the
\* clock standing still
NextResolve ==
    \/ \E s \in Inputs : tasks = EmptyBag /\ Call(s)
    \/ \E f \in DOMAIN futures : \E resp \in Responses(futures[f].key) :
          Respond(f, resp)
    \/ \E task \in BagToSet(tasks) : Resume(task)
    \/ \E task \in BagToSet(tasks) : Return(task)

SpecResolve == Init /\ [][NextResolve]_vars

-----------------------------------------------------------------------------
(* The resolver, one call at a time *)

\* what the fetch of a finished caller gave it
Fetched(r) == The(futures[r.fut].result)

\* C4: no call of the wrapped resolver aborts: whatever the upstream
\* answered, a finished call has returned a value.
C4_NeverAborts == \A r \in Done : ~IsPanic(r.out)

\* the inputs that are empty or match neither pattern
Plain ==
    {<<>>, <<"h", "e", "l", "l", "o">>, <<"Z">>, <<"Z", "4", "K">>,
     <<"Z", "K", "1">>, <<"a", "Z", "4">>, <<"Z", "4", "a">>,
     <<"Z", "4", "K", "1", "K", "2">>}

\* C5: a call with an empty string or one that matches neither pattern is
\* finished at once with String(s), and leaves the store and the requests as
\* they were.
C5_PlainUntouched ==
    [][\A r \in Entered :
          r.s \in Plain
             => /\ r.pc = "done"
                /\ r.out = [t |-> "String", str |-> r.s]
                /\ cache' = cache
                /\ futures' = futures]_vars

\* a string with an identifier as its prefix has been returned unchanged
\* while the store held an entry
C5_PlainReturned ==
    \E r \in Done :
        /\ r.s = <<"Z", "4", "a">>
        /\ r.out = [t |-> "String", str |-> r.s]
        /\ r.fut = 0
        /\ cache # {}
        /\ Len(futures) = Cardinality(cache)

\* The <<language, text>> pairs the documents above give for the global keys
\* of Z4, in the order of Z12K1 after its first element.
UpstreamTexts(doc, s) ==
    IF doc = GoodDoc(Z4) /\ s = K1of(Z4) THEN <<<<Z1002, Txt("a")>>>>
    ELSE IF doc = GoodDoc(Z4) /\ s = K2of(Z4)
    THEN <<<<Z1002, Txt("b")>>, <<Z1006, Txt("c")>>>>
    ELSE IF doc = DupDoc(Z4) /\ s = K1of(Z4)
    THEN <<<<Z1002, Txt("a")>>, <<Z1002, Txt("b")>>>>
    ELSE <<>>

\* the finished calls for a global key of Z4 whose lookup succeeded
Succeeded ==
    {r \in Done : /\ r.s \in {K1of(Z4), K2of(Z4)}
                  /\ ~IsPanic(r.out)
                  /\ r.out.t = "LabelledNode"}

InQuotes(text) == <<"'">> \o text \o <<"'">>

\* C6: a successful lookup of a global key has fetched the owning
\* identifier and returns a LabelledNode with z_label = s whose labels are
\* the upstream texts in single quotes, one per language of the elements of
\* Z12K1 after the first: of two elements of one language the later one
\* gives the label.
C6_QuotedLabels ==
    \A r \in Succeeded :
        LET texts == UpstreamTexts(Fetched(r).val, r.s)
        IN  /\ futures[r.fut].key = Z4
            /\ r.out.z_label = r.s
            /\ r.out.readable_labels =
                  {<<texts[i][1], InQuotes(texts[i][2])>> :
                     i \in {j \in DOMAIN texts :
                              \A k \in DOMAIN texts :
                                 texts[k][1] = texts[j][1] => k <= j}}

\* C6 as stated: one entry per element of Z12K1 after the first
C6_OneEntryPerElement ==
    \A r \in Succeeded :
        LET texts == UpstreamTexts(Fetched(r).val, r.s)
        IN  /\ futures[r.fut].key = Z4
            /\ r.out.z_label = r.s
            /\ Cardinality(r.out.readable_labels) = Len(texts)
            /\ \A i \in DOMAIN texts :
                  <<texts[i][1], InQuotes(texts[i][2])>>
                     \in r.out.readable_labels

\* the lookup of a key with two labels of one language has succeeded
C6_LaterLabelKept ==
    \E r \in Succeeded :
        /\ r.s = K1of(Z4)
        /\ Fetched(r).val = DupDoc(Z4)
        /\ r.out.readable_labels = {<<Z1002, <<"'", "b", "'">>>>}

-----------------------------------------------------------------------------
(* simple_value.rs, labelize.rs: SimpleValue and the tree labeler *)

\* StringType::is_labelled
is_labelled(st, label) ==
    IF st.t = "String" THEN st.str = label ELSE st.z_label = label

\* a panic in a sequence of results, in the pairs of a set
PanicIn(items) == \E i \in DOMAIN items : IsPanic(items[i])
PanicInObj(obj) == \E p \in obj : IsPanic(p[1]) \/ IsPanic(p[2])

\* SimpleValue::StringType, ::Array, ::Object. A panic in a part aborts the
\* whole; each part is evaluated once, as the arguments of a call are.
SV_StringType(st) ==
    The({IF IsPanic(s) THEN Panic ELSE [sv |-> "StringType", st |-> s] :
           s \in {st}})
SV_Array(items) ==
    The({IF PanicIn(v) THEN Panic ELSE [sv |-> "Array", items |-> v] :
           v \in {items}})
SV_Object(obj) ==
    The({IF PanicInObj(o) THEN Panic ELSE [sv |-> "Object", obj |-> o] :
           o \in {obj}})

\* what the upstream holds for every identifier while a document is labelled:
\* nothing reachable ("offline") or labels for it and its keys ("online")
World(mode, z) ==
    IF mode = "offline" THEN NetFail ELSE Body(Envelope(z, GoodDoc(z)))

\* _labelize_wrapped(s) in that world
Labelled(s, mode) ==
    IF FetchKey(s) = {} THEN _labelize_wrapped(s, Panic)
    ELSE The({_labelize_wrapped(s, fetched) :
                fetched \in {_fetch(z_number, resp) :
                               z_number \in FetchKey(s),
                               resp \in {World(mode, The(FetchKey(s)))}}})

RECURSIVE StringsOf(_)
\* the strings of a JSON value, keys included: the arguments of the calls
\* of _labelize_wrapped that labelize(v) makes
StringsOf(v) ==
    IF v.j = "String" THEN {v.str}
    ELSE IF v.j = "Array"
    THEN UNION {StringsOf(v.items[i]) : i \in DOMAIN v.items}
    ELSE IF v.j = "Object"
    THEN UNION {{p[1]} \cup StringsOf(p[2]) : p \in v.map}
    ELSE {}

\* what _labelize_wrapped returns for each string of v in that world
Resolved(v, mode) == [s \in StringsOf(v) |-> Labelled(s, mode)]

RECURSIVE labelize(_, _)
\* labelize(v), with wrapped[s] the result of _labelize_wrapped(s): null,
\* booleans and numbers are unimplemented!()
labelize(v, wrapped) ==
    IF v.j = "String" THEN SV_StringType(wrapped[v.str])
    ELSE IF v.j = "Array"
    THEN SV_Array([i \in DOMAIN v.items |-> labelize(v.items[i], wrapped)])
    ELSE IF v.j = "Object"
    THEN SV_Object({<<wrapped[p[1]], labelize(p[2], wrapped)>> :
                      p \in v.map})
    ELSE Panic

-----------------------------------------------------------------------------
(* typed_form.rs: type lifting *)

\* Type::Simple, Type::WithArgs (also IntermediateType)
Simple(name) == [k |-> "Simple", name |-> name]
WithArgs(name, args) ==
    The({IF PanicInObj(a) THEN Panic
         ELSE [k |-> "WithArgs", name |-> name, args |-> a] : a \in {args}})
\* Err(()) of Type::try_from
NotAType == [nottype |-> TRUE]
IsNotAType(r) == "nottype" \in DOMAIN r

\* TypedForm
TF_StringType(st) == [tf |-> "StringType", st |-> st]
TF_Array(typ, items) ==
    The({IF IsPanic(t) \/ PanicIn(v) THEN Panic
         ELSE [tf |-> "Array", typ |-> t, items |-> v] :
           t \in {typ}, v \in {items}})
TF_Object(obj) ==
    The({IF PanicInObj(o) THEN Panic ELSE [tf |-> "Object", obj |-> o] :
           o \in {obj}})
TF_TypedObject(typ, obj) ==
    The({IF IsPanic(t) \/ PanicInObj(o) THEN Panic
         ELSE [tf |-> "TypedObject", typ |-> t, obj |-> o] :
           t \in {typ}, o \in {obj}})

\* o.iter().find(|(k, _v)| k.is_labelled(label)) as Option; the pairs of an
\* object made from a JSON object have distinct keys, so at most one matches
Find(obj, label) ==
    LET found == {p \in obj : is_labelled(p[1], label)}
    IN  IF found = {} THEN {} ELSE {CHOOSE p \in found : TRUE}

\* a filter that keeps every pair
WithAll(obj, label) == obj

\* .filter(|(k, _v)| !k.is_labelled(label))
Without(obj, label) == {p \in obj : ~is_labelled(p[1], label)}

RECURSIVE Type_try_from(_)
RECURSIVE TypedForm_from(_)

\* a conversion to Type that takes strings only
TypeOfString(value) ==
    IF value.sv = "StringType" THEN Simple(value.st) ELSE NotAType

\* a conversion to Type that puts the arguments of the inner descriptor
\* among those of the outer one
TypeMergingArgs(value) ==
    IF value.sv = "StringType" THEN Simple(value.st)
    ELSE IF value.sv = "Array" THEN NotAType
    ELSE LET z1k1 == Find(value.obj, Z1K1) IN
    IF z1k1 = {} THEN NotAType
    ELSE LET rest == {<<p[1], TypedForm_from(p[2])>> :
                        p \in Without(value.obj, Z1K1)}
         IN  The({IF IsPanic(typ_of_typ) \/ IsNotAType(typ_of_typ)
                  THEN typ_of_typ
                  ELSE IF typ_of_typ.k = "Simple"
                  THEN WithArgs(typ_of_typ.name, rest)
                  ELSE WithArgs(typ_of_typ.name,
                                rest \cup Without(typ_of_typ.args, Z1K1)) :
                    typ_of_typ \in {Type_try_from(The(z1k1)[2])}})

\* impl TryFrom<SimpleValue> for Type
Type_try_from(value) ==
    IF value.sv = "StringType" THEN Simple(value.st)
    ELSE IF value.sv = "Array" THEN NotAType
    ELSE LET z1k1 == Find(value.obj, Z1K1) IN
    IF z1k1 = {} THEN NotAType
    ELSE LET rest == {<<p[1], TypedForm_from(p[2])>> :
                        p \in Without(value.obj, Z1K1)}
         IN  The({IF IsPanic(typ_of_typ) \/ IsNotAType(typ_of_typ)
                  THEN typ_of_typ
                  ELSE IF typ_of_typ.k = "Simple"
                  THEN WithArgs(typ_of_typ.name, rest)
                  ELSE WithArgs(typ_of_typ.name,
                                rest \cup {<<The(z1k1)[1],
                                             TF_Object(Without(typ_of_typ.args,
                                                               Z1K1))>>}) :
                    typ_of_typ \in {Type_try_from(The(z1k1)[2])}})

\* impl From<SimpleValue> for TypedForm
TypedForm_from(val) ==
    IF val.sv = "StringType" THEN TF_StringType(val.st)
    ELSE IF val.sv = "Array"
    THEN IF val.items = <<>> THEN Panic
         ELSE The({IF IsPanic(typ) \/ IsNotAType(typ) THEN Panic
                   ELSE TF_Array(typ, [i \in 1..(Len(val.items) - 1) |->
                                          TypedForm_from(val.items[i + 1])]) :
                     typ \in {Type_try_from(val.items[1])}})
    ELSE LET z1k1 == Find(val.obj, Z1K1) IN
         IF z1k1 = {}
         THEN TF_Object({<<p[1], TypedForm_from(p[2])>> : p \in val.obj})
         ELSE The({IF IsPanic(typ) \/ IsNotAType(typ) THEN Panic
                   ELSE TF_TypedObject(typ,
                           {<<p[1], TypedForm_from(p[2])>> :
                              p \in Without(val.obj, Z1K1)}) :
                     typ \in {Type_try_from(The(z1k1)[2])}})

-----------------------------------------------------------------------------
(* intermediate_form.rs: IntermediateForm and its four passes *)

IF_StringType(st) == [f |-> "StringType", st |-> st]
IF_LabelledNode(st, lang) == [f |-> "LabelledNode", st |-> st, lang |-> lang]
IF_Array(items) ==
    The({IF PanicIn(v) THEN Panic ELSE [f |-> "Array", items |-> v] :
           v \in {items}})
IF_TypedArray(typ, items) ==
    The({IF IsPanic(t) \/ PanicIn(v) THEN Panic
         ELSE [f |-> "TypedArray", typ |-> t, items |-> v] :
           t \in {typ}, v \in {items}})
IF_Object(obj) ==
    The({IF PanicInObj(o) THEN Panic ELSE [f |-> "Object", obj |-> o] :
           o \in {obj}})
IF_TypedObject(typ, obj) ==
    The({IF IsPanic(t) \/ PanicInObj(o) THEN Panic
         ELSE [f |-> "TypedObject", typ |-> t, obj |-> o] :
           t \in {typ}, o \in {obj}})

RECURSIVE IntermediateType_from(_)
RECURSIVE IntermediateForm_from(_)

\* impl From<Type> for IntermediateType
IntermediateType_from(typ) ==
    IF typ.k = "Simple" THEN Simple(typ.name)
    ELSE WithArgs(typ.name,
                  {<<p[1], IntermediateForm_from(p[2])>> : p \in typ.args})

\* impl From<TypedForm> for IntermediateForm; the typed array of
\* typed_form.rs is its TypedArray
IntermediateForm_from(val) ==
    IF val.tf = "StringType" THEN IF_StringType(val.st)
    ELSE IF val.tf = "Array"
    THEN IF_TypedArray(IntermediateType_from(val.typ),
                       [i \in DOMAIN val.items |->
                           IntermediateForm_from(val.items[i])])
    ELSE IF val.tf = "Object"
    THEN IF_Object({<<p[1], IntermediateForm_from(p[2])>> : p \in val.obj})
    ELSE IF_TypedObject(IntermediateType_from(val.typ),
                        {<<p[1], IntermediateForm_from(p[2])>> : p \in val.obj})

\* the string of the StringType found under key label, or a panic:
\* match &obj.iter().find(..).unwrap().1 { StringType(s) => s, _ => todo!() }
StringUnder(obj, label) ==
    LET found == Find(obj, label)
    IN  IF found = {} THEN Panic
        ELSE IF The(found)[2].f = "StringType" THEN The(found)[2].st
        ELSE Panic

RECURSIVE compress_reference(_)
RECURSIVE IntermediateType_compress_reference(_)

\* fn compress_reference(obj)
compress_reference_obj(obj) == {<<p[1], compress_reference(p[2])>> : p \in obj}

\* IntermediateType::compress_reference
IntermediateType_compress_reference(typ) ==
    IF typ.k = "Simple" THEN typ
    ELSE IF is_labelled(typ.name, Z9)
    THEN IF Find(typ.args, Z9K1) # {}
         THEN LET s == StringUnder(typ.args, Z9K1)
              IN  IF IsPanic(s) THEN Panic ELSE Simple(s)
         ELSE LET z1k1 == Find(typ.args, Z1K1) IN
              IF z1k1 = {} THEN Panic
              ELSE IF The(z1k1)[2].f # "Object" THEN Panic
              ELSE LET s == StringUnder(The(z1k1)[2].obj, Z9K1)
                   IN  IF IsPanic(s) THEN Panic
                       ELSE WithArgs(s, Without(typ.args, Z1K1))
    ELSE WithArgs(typ.name, compress_reference_obj(typ.args))

\* IntermediateForm::compress_reference
compress_reference(x) ==
    IF x.f = "TypedObject" /\ x.typ.k = "Simple"
    THEN IF is_labelled(x.typ.name, Z9)
         THEN LET s == StringUnder(x.obj, Z9K1)
              IN  IF IsPanic(s) THEN Panic ELSE IF_StringType(s)
         ELSE IF_TypedObject(x.typ, compress_reference_obj(x.obj))
    ELSE IF x.f = "TypedObject"
    THEN IF_TypedObject(IntermediateType_compress_reference(x.typ),
                        compress_reference_obj(x.obj))
    ELSE IF x.f = "Array"
    THEN IF_Array([i \in DOMAIN x.items |-> compress_reference(x.items[i])])
    ELSE IF x.f = "TypedArray"
    THEN IF_TypedArray(IntermediateType_compress_reference(x.typ),
                       [i \in DOMAIN x.items |->
                           compress_reference(x.items[i])])
    ELSE IF x.f = "Object" THEN IF_Object(compress_reference_obj(x.obj))
    ELSE x

\* StringType::to_raw: the raw string of a plain or labelled string
to_raw(st) == IF st.t = "String" THEN st.str ELSE st.z_label

RECURSIVE compress_string(_)

\* fn compress_string(obj)
compress_string_obj(obj) == {<<p[1], compress_string(p[2])>> : p \in obj}

\* IntermediateType::compress_string
IntermediateType_compress_string(typ) ==
    IF typ.k = "Simple" THEN typ
    ELSE IF is_labelled(typ.name, Z6)
    THEN LET s == StringUnder(typ.args, Z6K1)
         IN  IF IsPanic(s) THEN Panic ELSE Simple(s)
    ELSE WithArgs(typ.name, compress_reference_obj(typ.args))

\* IntermediateForm::compress_string
compress_string(x) ==
    IF x.f = "TypedObject" /\ x.typ.k = "Simple"
    THEN IF is_labelled(x.typ.name, Z6)
         THEN LET s == StringUnder(x.obj, Z6K1)
              IN  IF IsPanic(s) THEN Panic
                  ELSE IF_StringType(String(to_raw(s)))
         ELSE IF_TypedObject(x.typ, compress_string_obj(x.obj))
    ELSE IF x.f = "TypedObject"
    THEN IF_TypedObject(IntermediateType_compress_string(x.typ),
                        compress_string_obj(x.obj))
    ELSE IF x.f = "Array"
    THEN IF_Array([i \in DOMAIN x.items |-> compress_string(x.items[i])])
    ELSE IF x.f = "TypedArray"
    THEN IF_TypedArray(IntermediateType_compress_string(x.typ),
                       [i \in DOMAIN x.items |-> compress_string(x.items[i])])
    ELSE IF x.f = "Object" THEN IF_Object(compress_string_obj(x.obj))
    ELSE x

RECURSIVE compress_monolingual(_)

\* fn compress_monolingual(obj)
compress_monolingual_obj(obj) ==
    {<<p[1], compress_monolingual(p[2])>> : p \in obj}

\* IntermediateType::compress_monolingual
IntermediateType_compress_monolingual(typ) ==
    IF typ.k = "Simple" THEN typ
    ELSE WithArgs(typ.name, compress_monolingual_obj(typ.args))

\* IntermediateForm::compress_monolingual
compress_monolingual(x) ==
    IF x.f = "TypedObject" /\ x.typ.k = "Simple"
    THEN IF is_labelled(x.typ.name, Z11)
         THEN LET text == StringUnder(x.obj, Z11K2)
                  lang == StringUnder(x.obj, Z11K1)
              IN  IF IsPanic(text) \/ IsPanic(lang) THEN Panic
                  ELSE IF_LabelledNode(text, lang)
         ELSE IF_TypedObject(x.typ, compress_monolingual_obj(x.obj))
    ELSE IF x.f = "TypedObject"
    THEN IF_TypedObject(IntermediateType_compress_monolingual(x.typ),
                        compress_monolingual_obj(x.obj))
    ELSE IF x.f = "Array"
    THEN IF_Array([i \in DOMAIN x.items |-> compress_monolingual(x.items[i])])
    ELSE IF x.f = "TypedArray"
    THEN IF_TypedArray(IntermediateType_compress_monolingual(x.typ),
                       [i \in DOMAIN x.items |->
                           compress_monolingual(x.items[i])])
    ELSE IF x.f = "Object" THEN IF_Object(compress_monolingual_obj(x.obj))
    ELSE x

RECURSIVE drop_array_item_types(_)

\* fn drop_array_item_types(obj)
drop_array_item_types_obj(obj) ==
    {<<p[1], drop_array_item_types(p[2])>> : p \in obj}

\* IntermediateType::drop_array_item_types
IntermediateType_drop_array_item_types(typ) ==
    IF typ.k = "Simple" THEN typ
    ELSE WithArgs(typ.name, drop_array_item_types_obj(typ.args))

\* an item of a typed array that keeps the parts of a typed object as they are
DropItemShallow(item) ==
    IF item.f = "TypedObject" THEN IF_Object(item.obj)
    ELSE drop_array_item_types(item)

\* the closure over the items of a typed array
DropItem(item) ==
    IF item.f = "TypedObject"
    THEN drop_array_item_types(IF_Object(item.obj))
    ELSE drop_array_item_types(item)

\* IntermediateForm::drop_array_item_types
drop_array_item_types(x) ==
    IF x.f = "TypedArray"
    THEN IF_TypedArray(x.typ, [i \in DOMAIN x.items |-> DropItem(x.items[i])])
    ELSE IF x.f = "Array"
    THEN IF_Array([i \in DOMAIN x.items |->
                      drop_array_item_types(x.items[i])])
    ELSE IF x.f = "Object" THEN IF_Object(drop_array_item_types_obj(x.obj))
    ELSE IF x.f = "TypedObject"
    THEN IF_TypedObject(IntermediateType_drop_array_item_types(x.typ),
                        drop_array_item_types_obj(x.obj))
    ELSE x

-----------------------------------------------------------------------------
(* compact_key.rs, compact_value.rs: CompactValue *)

\* CompactKey::StringType(s, types), CompactKey::Transient(types); a
\* SimpleType is the StringType it wraps
CK_StringType(st, types) == [ck |-> "StringType", st |-> st, types |-> types]
CK_Transient(types) == [ck |-> "Transient", types |-> types]

CV_KeyType(key) == [cv |-> "KeyType", key |-> key]
CV_Array(items) == [cv |-> "Array", items |-> items]
CV_Object(obj) == [cv |-> "Object", obj |-> obj]

BangZ1K1 == <<"!", "Z", "1", "K", "1">>

RECURSIVE CompactValue_from(_)

\* the array of a typed array: its items, after the object of the type's
\* arguments if it has any
CompactArray(typ, items) ==
    LET converted == [i \in DOMAIN items |-> CompactValue_from(items[i])]
    IN  IF typ.k = "Simple" THEN CV_Array(converted)
        ELSE CV_Array(<<CompactValue_from(IF_Object(typ.args))>> \o converted)

\* fn rebuild_obj_with_type_args
rebuild_obj_with_type_args(obj, type_args) ==
    LET converted_obj == CompactValue_from(IF_Object(obj))
        converted_args == CompactValue_from(IF_Object(type_args))
    IN  CV_Object(converted_obj.obj
                    \cup {<<CK_StringType(String(BangZ1K1), <<>>),
                            CV_Object(converted_args.obj)>>})

\* the object of a typed object, with its type's arguments if it has any
CompactObject(typ, obj) ==
    IF typ.k = "Simple" THEN CompactValue_from(IF_Object(obj))
    ELSE rebuild_obj_with_type_args(obj, typ.args)

\* a closure that annotates no key
CompactFieldBare(k, v) == <<CK_StringType(k, <<>>), CompactValue_from(v)>>

\* the closure over the fields of an Object: the type of a typed value is
\* pulled onto its key
CompactField(k, v) ==
    IF v.f = "TypedObject"
    THEN <<CK_StringType(k, <<v.typ.name>>), CompactObject(v.typ, v.obj)>>
    ELSE IF v.f = "TypedArray"
    THEN <<CK_StringType(k, <<v.typ.name>>), CompactArray(v.typ, v.items)>>
    ELSE <<CK_StringType(k, <<>>), CompactValue_from(v)>>

\* impl From<IntermediateForm> for CompactValue
CompactValue_from(val) ==
    IF val.f = "StringType" THEN CV_KeyType(CK_StringType(val.st, <<>>))
    ELSE IF val.f = "LabelledNode"
    THEN CV_KeyType(CK_StringType(val.st, <<val.lang>>))
    ELSE IF val.f = "Array"
    THEN CV_Array([i \in DOMAIN val.items |-> CompactValue_from(val.items[i])])
    ELSE IF val.f = "TypedArray"
    THEN CompactArray(val.typ, val.items)
    ELSE IF val.f = "Object"
    THEN CV_Object({CompactField(p[1], p[2]) : p \in val.obj})
    ELSE CV_Object({<<CK_Transient(<<val.typ.name>>),
                      CompactObject(val.typ, val.obj)>>})

\* the annotations of an inner key without its string
InnerTypesOnly(inner_k) == inner_k.types

\* the annotations an inner key brings: its string, then its own annotations
InnerTypes(inner_k) ==
    IF inner_k.ck = "StringType" THEN <<inner_k.st>> \o inner_k.types
    ELSE inner_k.types

\* a field whose compressed value is an object of one entry takes that
\* entry's value, and its key the entry's key as annotations
MergeField(key, val) ==
    LET inner == CHOOSE p \in val.obj : TRUE
    IN  IF key.ck = "StringType"
        THEN <<CK_StringType(key.st, key.types \o InnerTypes(inner[1])),
               inner[2]>>
        ELSE <<CK_Transient(key.types \o InnerTypes(inner[1])), inner[2]>>

RECURSIVE compress_simple_classes(_)

\* the second closure over the fields of an Object
CompressField(key, val) ==
    IF val.cv # "Object" THEN <<key, val>>
    ELSE IF Cardinality(val.obj) = 1 THEN MergeField(key, val)
    ELSE <<key, compress_simple_classes(val)>>

\* CompactValue::compress_simple_classes
compress_simple_classes(x) ==
    IF x.cv = "KeyType" THEN x
    ELSE IF x.cv = "Array"
    THEN CV_Array([i \in DOMAIN x.items |->
                      compress_simple_classes(x.items[i])])
    ELSE CV_Object(UNION {{CompressField(p[1], val) :
                              val \in {compress_simple_classes(p[2])}} :
                            p \in x.obj})

-----------------------------------------------------------------------------
(* The pipeline of the compactify route, one step at a time *)

MaxSteps == 3
MaxItems == 2

\* {"Z1K1": "Z9", "Z9K1": z}, {"Z1K1": "Z6", "Z6K1": s}
Ref(z) == JObj({<<Z1K1, JStr(Z9)>>, <<Z9K1, JStr(z)>>})
Str(s) == JObj({<<Z1K1, JStr(Z6)>>, <<Z6K1, JStr(s)>>})
\* {"Z1K1": typ, "Z4K1": v}, [typ, items...], {"Z4K1": v}
Typed(typ, v) == JObj({<<Z1K1, typ>>, <<K1of(Z4), v>>})
List(typ, items) == JArr(<<typ>> \o items)
Field(v) == JObj({<<K1of(Z4), v>>})

\* a function type written with references: {"Z1K1": ref Z7, "Z7K1": ref Z6}
FunctionType == JObj({<<Z1K1, Ref(Z7)>>, <<K1of(Z7), Ref(Z6)>>})

\* a type with a typed array among its arguments:
\* {"Z1K1": "Z7", "Z7K1": ["Z4", {"Z1K1": "Z4", "Z4K1": "x"}]}
ListType ==
    JObj({<<Z1K1, JStr(Z7)>>,
          <<K1of(Z7), List(JStr(Z4), <<Typed(JStr(Z4), JStr(Txt("x")))>>)>>})

\* the values of Z1K1 and the heads of arrays
DocTypes ==
    {JStr(Z4), Ref(Z4), Str(Z6), FunctionType,
     JObj({<<Z1K1, JStr(Z7)>>, <<K1of(Z7), Ref(Z6)>>}),
     JObj({<<Z1K1, JStr(Z7)>>, <<K1of(Z7), Str(Txt("x"))>>}),
     JObj({<<Z1K1, Ref(Z9)>>, <<K1of(Z7), JStr(Z6)>>})}

DocLeaves ==
    {JStr(Txt("x")), JStr(Z4), Ref(Z4), Str(Txt("x")), Mono(Z1002, Txt("x"))}

\* the items of the arrays
DocItems ==
    {JStr(Txt("x")), Mono(Z1002, Txt("x")), Typed(JStr(Z4), Ref(Z4)),
     Typed(JStr(Z4), List(JStr(Z4), <<Typed(JStr(Z4), JStr(Txt("x")))>>))}

RECURSIVE SeqsUpTo(_, _)
\* the sequences over S of length at most n
SeqsUpTo(S, n) ==
    IF n = 0 THEN {<<>>}
    ELSE LET shorter == SeqsUpTo(S, n - 1)
         IN  shorter \cup {Append(q, x) : q \in shorter, x \in S}

\* documents on which a step panics: null, an empty array, an array whose
\* head is no type, an object whose Z1K1 is no type, a monolingual text
\* without its text, a reference without Z9K1, a string whose Z6K1 holds
\* an object, an array with an item, or with an argument of its type, that
\* is an empty array, an array whose head is an object without Z1K1 or with
\* no type under it, a monolingual text whose language is a reference
DocBroken ==
    {JNull, JArr(<<>>), JArr(<<JArr(<<>>)>>), Typed(JArr(<<>>), JStr(Z4)),
     JObj({<<Z1K1, JStr(Z11)>>, <<Z11K1, Ref(Z1002)>>,
           <<Z11K2, JStr(Txt("x"))>>}),
     JArr(<<JStr(Z4), JArr(<<>>)>>),
     JArr(<<Typed(JStr(Z4), JArr(<<>>)), JStr(Txt("x"))>>),
     JArr(<<Field(JStr(Z4)), JStr(Txt("x"))>>),
     JArr(<<Typed(JArr(<<>>), JStr(Z4))>>),
     JObj({<<Z1K1, JStr(Z11)>>, <<Z11K1, JStr(Z1002)>>}),
     JObj({<<Z1K1, JStr(Z9)>>}),
     JObj({<<Z1K1, JStr(Z6)>>, <<Z6K1, Field(JStr(Txt("x")))>>})}

\* the request bodies
Documents ==
    LET typed == {Typed(typ, v) : typ \in DocTypes, v \in DocLeaves}
        lists == {List(typ, items) :
                    typ \in {JStr(Z4), FunctionType},
                    items \in SeqsUpTo(DocItems, MaxItems)}
        own == {List(ListType, <<>>), Typed(ListType, JStr(Txt("x"))),
                List(JStr(Z6), <<Typed(JStr(Z4), JStr(Txt("x")))>>),
                JObj({<<K1of(Z4), List(JStr(Z4), <<JStr(Txt("x"))>>)>>,
                      <<K2of(Z4), JStr(Txt("x"))>>,
                      <<K1of(Z7), Typed(JStr(Z4), JStr(Z4))>>}),
                JObj({<<Z1K1, Str(Z6)>>, <<Z6K1, JStr(Txt("x"))>>}),
                JObj({<<Z1K1, Ref(Z9)>>, <<Z9K1, JStr(Z4)>>}),
                JObj({<<Z1K1, JObj({<<Z1K1, JStr(Z7)>>,
                                    <<K1of(Z7), JStr(Z6)>>})>>,
                      <<BangZ1K1, JStr(Txt("x"))>>}),
                JObj({<<Z1K1, FunctionType>>,
                      <<K1of(Z4), Mono(Z1002, Txt("x"))>>,
                      <<K2of(Z4), List(JStr(Z4),
                                       <<Typed(JStr(Z4), Ref(Z4))>>)>>})}
    IN  DocLeaves \cup DocBroken \cup typed \cup lists \cup own
          \cup {Field(d) : d \in typed \cup own}
          \cup {Field(Field(Typed(JStr(Z4), Field(JStr(Txt("x"))))))}

\* trees of the forms the passes take that no document lifts to: an untyped
\* array, keys without a string inside an object, two fields that the
\* merge of compress_simple_classes makes equal
BuiltTrees ==
    LET x == CV_KeyType(CK_StringType(String(Txt("x")), <<>>))
        a == String(Txt("a"))
        b == String(Txt("b"))
        mono == IF_TypedObject(Simple(String(Z11)),
                               {<<String(Z11K1), IF_StringType(String(Z1002))>>,
                                <<String(Z11K2), IF_StringType(a)>>})
        one == CV_Object({<<CK_StringType(b, <<>>), x>>})
        pair == CV_Object({<<CK_StringType(a, <<>>), one>>,
                           <<CK_StringType(a, <<b>>), x>>})
        bare == CV_Object({<<CK_Transient(<<>>),
                             CV_Object({<<CK_Transient(<<>>), x>>})>>})
    IN  {IF_Array(<<mono, IF_TypedArray(Simple(String(Z4)), <<mono>>)>>),
         IF_Array(<<IF_LabelledNode(a, String(Z1002))>>),
         pair,
         CV_Object({<<CK_StringType(a, <<>>), pair>>}),
         CV_Object({<<CK_StringType(a, <<>>), bare>>}),
         CV_Array(<<one, pair, bare>>)}

\* which form a tree is in
StageOf(x) ==
    IF IsPanic(x) THEN "panic"
    ELSE IF "j" \in DOMAIN x THEN "json"
    ELSE IF "sv" \in DOMAIN x THEN "simple"
    ELSE IF "tf" \in DOMAIN x THEN "typed"
    ELSE IF "f" \in DOMAIN x THEN "intermediate"
    ELSE IF "cv" \in DOMAIN x THEN "compact"
    ELSE "none"

InitPass ==
    /\ InitResolver
    /\ InitRenderer
    /\ form \in Documents \cup BuiltTrees
    /\ prev = NoOut /\ lastPass = "none" /\ steps = 0 /\ changed = {}
    /\ route = <<>>
    /\ NoJoin

\* a conversion from one form to the next; results holds its one result
Converted(name, results) ==
    /\ form' \in results
    /\ prev' = form
    /\ lastPass' = name
    /\ UNCHANGED <<steps, changed, route, joinVars, resolverVars, rendererVars>>

\* a rewriting pass within one form
Rewritten(name, results) ==
    /\ steps < MaxSteps
    /\ form' \in results
    /\ prev' = form
    /\ lastPass' = name
    /\ steps' = steps + 1
    /\ changed' = IF IsPanic(form') \/ form' = form THEN changed
                  ELSE changed \cup {name}
    /\ UNCHANGED <<route, joinVars, resolverVars, rendererVars>>

Labelize(mode) ==
    /\ StageOf(form) = "json"
    /\ \E wrapped \in {Resolved(form, mode)} :
          Converted("labelize", {labelize(form, wrapped)})

Lift ==
    /\ StageOf(form) = "simple"
    /\ Converted("lift", {TypedForm_from(form)})

Lower ==
    /\ StageOf(form) = "typed"
    /\ Converted("lower", {IntermediateForm_from(form)})

CompressReference ==
    /\ StageOf(form) = "intermediate"
    /\ Rewritten("compress_reference", {compress_reference(form)})

CompressString ==
    /\ StageOf(form) = "intermediate"
    /\ Rewritten("compress_string", {compress_string(form)})

CompressMonolingual ==
    /\ StageOf(form) = "intermediate"
    /\ Rewritten("compress_monolingual", {compress_monolingual(form)})

DropArrayItemTypes ==
    /\ StageOf(form) = "intermediate"
    /\ Rewritten("drop_array_item_types", {drop_array_item_types(form)})

Convert ==
    /\ StageOf(form) = "intermediate"
    /\ Converted("convert", {CompactValue_from(form)})

CompressSimpleClasses ==
    /\ StageOf(form) = "compact"
    /\ Rewritten("compress_simple_classes", {compress_simple_classes(form)})

NextPass ==
    \/ \E mode \in {"offline", "online"} : Labelize(mode)
    \/ Lift
    \/ Lower
    \/ CompressReference
    \/ CompressString
    \/ CompressMonolingual
    \/ DropArrayItemTypes
    \/ Convert
    \/ CompressSimpleClasses

SpecPass == InitPass /\ [][NextPass]_vars

\* the last step was the pass of that name and it completed
Applied(name) == lastPass = name /\ ~IsPanic(form)

\* C8: compress_reference is idempotent: applied to a tree it has just
\* produced, it completes and gives that tree again.
C8_ReferenceIdempotent ==
    Applied("compress_reference") => compress_reference(form) = form

\* C9: compress_string is idempotent: applied to a tree it has just
\* produced, it completes and gives that tree again.
C9_StringIdempotent ==
    Applied("compress_string") => compress_string(form) = form

\* C10: compress_monolingual, drop_array_item_types and
\* compress_simple_classes are each idempotent: applied to a tree the pass
\* has just produced, the pass gives that tree again.
C10_Idempotent ==
    /\ Applied("compress_monolingual") => compress_monolingual(form) = form
    /\ Applied("drop_array_item_types") => drop_array_item_types(form) = form
    /\ Applied("compress_simple_classes")
          => compress_simple_classes(form) = form

\* each of the three passes has changed the tree, the last of them
\* compress_simple_classes, and a second application leaves it as it is
C10_AllThreeRewrote ==
    /\ changed = {"compress_monolingual", "drop_array_item_types",
                  "compress_simple_classes"}
    /\ Applied("compress_simple_classes")
    /\ prev # form
    /\ compress_simple_classes(form) = form

\* the four passes over IntermediateForm
IntermediatePasses ==
    {"compress_reference", "compress_string", "compress_monolingual",
     "drop_array_item_types"}

\* C11: each of the four passes over IntermediateForm is total: whatever
\* tree it is applied to, it returns a tree and does not abort.
C11_PassesTotal == lastPass \in IntermediatePasses => ~IsPanic(form)

-----------------------------------------------------------------------------
(* compact_key.rs, compact_value.rs: rendering in the preferred languages *)

\* a.cmp(b) of two Strings: -1, 0 or 1
StrCmp(a, b) == IF a = b THEN 0 ELSE IF StrLess(a, b) THEN -1 ELSE 1

RECURSIVE LabelsCmp(_, _)
\* a.cmp(b) of two BTreeMap<String, String>: their entries in key order,
\* compared one by one
LabelsCmp(a, b) ==
    IF a = {} \/ b = {} THEN (IF a = b THEN 0 ELSE IF a = {} THEN -1 ELSE 1)
    ELSE LET p == CHOOSE e \in a : \A o \in a : ~StrLess(o[1], e[1])
             q == CHOOSE e \in b : \A o \in b : ~StrLess(o[1], e[1])
         IN  IF p = q THEN LabelsCmp(a \ {p}, b \ {q})
             ELSE IF p[1] # q[1] THEN StrCmp(p[1], q[1])
             ELSE StrCmp(p[2], q[2])

\* the derived Ord of StringType: String before LabelledNode, a LabelledNode
\* by its labels and then its identifier
StringTypeCmp(a, b) ==
    IF a.t # b.t THEN (IF a.t = "String" THEN -1 ELSE 1)
    ELSE IF a.t = "String" THEN StrCmp(a.str, b.str)
    ELSE IF a.readable_labels # b.readable_labels
    THEN LabelsCmp(a.readable_labels, b.readable_labels)
    ELSE StrCmp(a.z_label, b.z_label)

\* the first index at which two sequences differ, as Option
FirstDifference(s, t) ==
    LET differ == {i \in DOMAIN s \cap DOMAIN t : s[i] # t[i]}
    IN  IF differ = {} THEN {}
        ELSE {CHOOSE i \in differ : \A k \in differ : i <= k}

\* Ordering of two lengths
LenCmp(s, t) ==
    IF Len(s) = Len(t) THEN 0 ELSE IF Len(s) < Len(t) THEN -1 ELSE 1

\* the derived Ord of Vec<SimpleType>
TypesCmp(s, t) ==
    LET at == FirstDifference(s, t)
    IN  IF at = {} THEN LenCmp(s, t)
        ELSE StringTypeCmp(s[The(at)], t[The(at)])

\* the derived Ord of CompactKey: StringType before Transient
CompactKeyCmp(a, b) ==
    IF a.ck # b.ck THEN (IF a.ck = "StringType" THEN -1 ELSE 1)
    ELSE IF a.ck = "Transient" THEN TypesCmp(a.types, b.types)
    ELSE IF a.st # b.st THEN StringTypeCmp(a.st, b.st)
    ELSE TypesCmp(a.types, b.types)

\* the place of a variant of CompactValue in its declaration
VariantRank(x) ==
    IF x.cv = "KeyType" THEN 0 ELSE IF x.cv = "Array" THEN 1 ELSE 2

RECURSIVE CompactValueCmp(_, _)
RECURSIVE ObjCmp(_, _)

\* the derived Ord of (CompactKey, CompactValue)
PairCmp(p, q) ==
    IF p[1] # q[1] THEN CompactKeyCmp(p[1], q[1])
    ELSE CompactValueCmp(p[2], q[2])

\* the least pair of a non-empty BTreeSet<(CompactKey, CompactValue)>
LeastPair(o) == CHOOSE p \in o : \A q \in o : PairCmp(p, q) <= 0

\* a.cmp(b) of two BTreeSets of pairs: their elements in order, one by one
ObjCmp(a, b) ==
    IF a = {} \/ b = {} THEN (IF a = b THEN 0 ELSE IF a = {} THEN -1 ELSE 1)
    ELSE \* the two least pairs, each found once
         The({IF p = q THEN ObjCmp(a \ {p}, b \ {q}) ELSE PairCmp(p, q) :
                p \in {LeastPair(a)}, q \in {LeastPair(b)}})

\* the derived Ord of CompactValue: KeyType, Array, Object in that order
CompactValueCmp(a, b) ==
    IF a.cv # b.cv
    THEN (IF VariantRank(a) < VariantRank(b) THEN -1 ELSE 1)
    ELSE IF a.cv = "KeyType" THEN CompactKeyCmp(a.key, b.key)
    ELSE IF a.cv = "Array"
    THEN LET at == FirstDifference(a.items, b.items)
         IN  IF at = {} THEN LenCmp(a.items, b.items)
             ELSE CompactValueCmp(a.items[The(at)], b.items[The(at)])
    ELSE ObjCmp(a.obj, b.obj)

RECURSIVE JoinTypes(_, _)
\* types.map(|t| t.0.choose_lang(langs)).collect::<Vec<String>>().join(", ")
JoinTypes(types, ls) ==
    IF types = <<>> THEN <<>>
    ELSE IF Len(types) = 1 THEN StringType_choose_lang(types[1], ls)
    ELSE StringType_choose_lang(types[1], ls) \o <<",", " ">>
            \o JoinTypes(Tail(types), ls)

\* a rendering of a key that leaves its annotations out
CompactKeyNameOnly(key, ls) ==
    IF key.ck = "StringType" THEN StringType_choose_lang(key.st, ls)
    ELSE <<"[", "]">>

\* CompactKey::choose_lang
CompactKey_choose_lang(key, ls) ==
    IF key.ck = "StringType"
    THEN IF Len(key.types) = 0 THEN StringType_choose_lang(key.st, ls)
         ELSE StringType_choose_lang(key.st, ls) \o <<" ", "[">>
                 \o JoinTypes(key.types, ls) \o <<"]">>
    ELSE <<"[">> \o JoinTypes(key.types, ls) \o <<"]">>

\* collect() into serde_json's Map of the pairs of a BTreeSet in its order:
\* of the pairs rendered to one key the greatest is inserted last and stays
LastOf(pairs) == CHOOSE p \in pairs : \A q \in pairs : PairCmp(q, p) <= 0

RECURSIVE CompactValue_choose_lang(_, _)
\* CompactValue::choose_lang
CompactValue_choose_lang(x, ls) ==
    IF x.cv = "KeyType" THEN JStr(CompactKey_choose_lang(x.key, ls))
    ELSE IF x.cv = "Array"
    THEN JArr([i \in DOMAIN x.items |->
                  CompactValue_choose_lang(x.items[i], ls)])
    ELSE JObj({<<k, CompactValue_choose_lang(
                       LastOf({p \in x.obj :
                                 CompactKey_choose_lang(p[1], ls) = k})[2],
                       ls)>> :
                 k \in {CompactKey_choose_lang(p[1], ls) : p \in x.obj}})

-----------------------------------------------------------------------------
(* simple_value.rs: rendering a StringType in the preferred languages *)

\* bound of the renderer's inputs: the length of the language preference
MaxLangs == 2

\* the languages of the labels, in ascending order of their identifiers, and
\* the languages a caller may ask for (Z11 labels nothing)
Languages == <<Z1002, Z1006, Z1830>>
Preferences == {Z1002, Z1006, Z1830, Z11}
LabelTexts == {Txt("a"), Txt("b")}

\* the maps from some of the languages to a label
LabelMaps ==
    UNION {{{<<Languages[i], f[i]>> : i \in ls} : f \in [ls -> LabelTexts]} :
             ls \in SUBSET (1..3)}

RenderInputs ==
    {LabelledNode(m, z) : m \in LabelMaps, z \in {Z4, K1of(Z4)}}
       \cup {String(Z4), String(<<>>)}

InitLang ==
    /\ InitResolver
    /\ InitPasses
    /\ node \in RenderInputs
    /\ langs \in UNION {[1..n -> Preferences] : n \in 0..MaxLangs}
    /\ rendered = {}

\* node.choose_lang(&langs)
Render ==
    /\ rendered = {}
    /\ rendered' = {StringType_choose_lang(node, langs)}
    /\ UNCHANGED <<node, langs, resolverVars, passVars>>

NextLang == Render

SpecLang == InitLang /\ [][NextLang]_vars

\* the languages of the node's labels, and those among the preferred ones
LabelLangs == {p[1] : p \in node.readable_labels}
Asked == {i \in DOMAIN langs : langs[i] \in LabelLangs}

\* C7: choose_lang on a LabelledNode gives the non-empty string
\* "{z_label}: {label}", label being the label of the first language of
\* langs that has one; if none has, the label of the first language in
\* ascending order; if there is no label, "<no label>".
C7_ChooseLang ==
    node.t = "LabelledNode" =>
      \A out \in rendered :
        /\ Len(out) > 0
        /\ \E label \in LabelTexts \cup {NoLabel} :
              /\ out = node.z_label \o <<":", " ">> \o label
              /\ IF Asked # {}
                 THEN \E i \in Asked :
                         /\ \A k \in Asked : i <= k
                         /\ <<langs[i], label>> \in node.readable_labels
                 ELSE IF LabelLangs # {}
                 THEN \E i \in 1..3 :
                         /\ <<Languages[i], label>> \in node.readable_labels
                         /\ \A k \in 1..(i - 1) : Languages[k] \notin LabelLangs
                 ELSE label = NoLabel

\* a node rendered by its second preference, the first having no label and
\* a lower language having another label
C7_SecondPreference ==
    /\ node = LabelledNode({<<Z1002, Txt("a")>>, <<Z1830, Txt("b")>>}, Z4)
    /\ langs = <<Z11, Z1830>>
    /\ rendered = {<<"Z", "4", ":", " ", "b">>}

-----------------------------------------------------------------------------
(* main.rs: the /compactify route *)

\* DEFAULT_LANGS and the preferences a request may carry
DEFAULT_LANGS == <<Z1830, Z1006, Z1002>>
RouteLangs == {<<>>, <<Z1002>>, <<Z1006, Z1002>>, DEFAULT_LANGS}

\* bodies of requests: objects without a type whose fields hold a leaf, and
\* one with the keys "Z4K1" and "Z4K1: 'a'"
RouteDocuments ==
    {Field(v) : v \in DocLeaves}
      \cup {JObj({<<K1of(Z4), JStr(Txt("x"))>>,
                  <<K1of(Z4) \o <<":", " ">> \o Quote(Txt("a")),
                    JStr(Txt("x"))>>})}
      \cup {JObj({<<K1of(Z4), Mono(Z1006, Txt("x"))>>, <<K2of(Z4), v>>}) :
               v \in DocLeaves}

\* request_wrapper has parsed the body into a document and its languages
InitRoute ==
    /\ InitResolver
    /\ node = LabelledNode({}, Z4) /\ rendered = {}
    /\ langs \in RouteLangs
    /\ form \in Documents \cup RouteDocuments
    /\ prev = NoOut /\ lastPass = "none" /\ steps = 0 /\ changed = {}
    /\ route = <<>>
    /\ NoJoin

\* one line of compactify_route: the n-th stage, run on the value of the
\* line before unless that line panicked; results holds its one result
Line(n, name, results) ==
    /\ Len(route) = n - 1
    /\ ~IsPanic(form)
    /\ form' \in results
    /\ prev' = form
    /\ lastPass' = name
    /\ route' = Append(route, [stage |-> name, out |-> form'])
    /\ UNCHANGED <<steps, changed, joinVars, resolverVars, rendererVars>>

\* let val: IntermediateForm = val.into()
Lifted(sv) ==
    The({IF IsPanic(typed) THEN Panic ELSE IntermediateForm_from(typed) :
           typed \in {TypedForm_from(sv)}})

RouteLabelize(mode) ==
    /\ route = <<>>
    /\ \E wrapped \in {Resolved(form, mode)} :
           Line(1, "labelize", {labelize(form, wrapped)})

RouteLift == Line(2, "lift", {Lifted(form)})

RouteMonolingual ==
    Line(3, "compress_monolingual", {compress_monolingual(form)})

RouteDropTypes ==
    Line(4, "drop_array_item_types", {drop_array_item_types(form)})

RouteConvert == Line(5, "convert", {CompactValue_from(form)})

RouteRespond ==
    Line(6, "choose_lang", {CompactValue_choose_lang(form, langs)})

NextRoute ==
    \/ \E mode \in {"offline", "online"} : RouteLabelize(mode)
    \/ RouteLift
    \/ RouteMonolingual
    \/ RouteDropTypes
    \/ RouteConvert
    \/ RouteRespond

SpecRoute == InitRoute /\ [][NextRoute]_vars

\* the request has been answered
Responded == route # <<>> /\ route[Len(route)].stage = "choose_lang"

\* the names of the stages run so far, in order
StagesRun == [i \in DOMAIN route |-> route[i].stage]

\* C12: an answered /compactify request has run these nine stages, in this
\* order, each once: labeler, type lifting, compress_reference,
\* compress_string, compress_monolingual, drop_array_item_types, conversion
\* to CompactValue, compress_simple_classes, choose_lang.
C12_NineStages ==
    Responded =>
        StagesRun = <<"labelize", "lift", "compress_reference",
                      "compress_string", "compress_monolingual",
                      "drop_array_item_types", "convert",
                      "compress_simple_classes", "choose_lang">>

\* the value of the request after the stage called name
After(name) ==
    The({route[i].out : i \in {j \in DOMAIN route : route[j].stage = name}})

\* the fields of the lifted body, an object without a type, that hold a
\* monolingual text: a Z11 object with a string under Z11K1 and under Z11K2
MonolingualFields ==
    IF Responded /\ After("lift").f = "Object"
    THEN {p \in After("lift").obj :
            /\ p[2].f = "TypedObject"
            /\ p[2].typ.k = "Simple"
            /\ is_labelled(p[2].typ.name, Z11)
            /\ ~IsPanic(StringUnder(p[2].obj, Z11K1))
            /\ ~IsPanic(StringUnder(p[2].obj, Z11K2))}
    ELSE {}

\* a string as the response shows it, and with an annotation
Shown(st) == StringType_choose_lang(st, langs)
Annotated(st, typ) == Shown(st) \o <<" ", "[">> \o Shown(typ) \o <<"]">>

\* C13 (as the code has it): a monolingual text {Z1K1: Z11, Z11K1: lang,
\* Z11K2: text} under key k of an outer object is rendered as the entry
\* whose key is k, without annotation, and whose value is "text [lang]":
\* the language annotation ends on the value.
C13_LanguageOnValue ==
    \A p \in MonolingualFields :
        <<Shown(p[1]),
          JStr(Annotated(StringUnder(p[2].obj, Z11K2),
                         StringUnder(p[2].obj, Z11K1)))>> \in form.map

\* C13 (as stated): the entry has the key "k [lang]" and the value text
C13_LanguageOnKey ==
    \A p \in MonolingualFields :
        <<Annotated(p[1], StringUnder(p[2].obj, Z11K1)),
          JStr(Shown(StringUnder(p[2].obj, Z11K2)))>> \in form.map

\* a request with labelled keys, a preference and a monolingual field is
\* answered
C13_MonolingualAnswered ==
    ~ (/\ langs # <<>>
       /\ \E p \in MonolingualFields :
             /\ p[1].t = "LabelledNode"
             /\ Cardinality(After("lift").obj) = 2)

-----------------------------------------------------------------------------
(* typed_form.rs: what type lifting accepts and what it builds *)

RECURSIVE Interpretable(_)
\* a value that reads as a type: a string, or an object with a Z1K1 field
\* whose value reads as a type
Interpretable(v) ==
    \/ v.sv = "StringType"
    \/ /\ v.sv = "Object"
       /\ Find(v.obj, Z1K1) # {}
       /\ Interpretable(The(Find(v.obj, Z1K1))[2])

\* the lifting of v succeeds
Lifts(v) == ~IsPanic(TypedForm_from(v))

RECURSIVE ArgumentsLift(_)
\* the lifting of every argument of a type descriptor succeeds
ArgumentsLift(v) ==
    \/ v.sv = "StringType"
    \/ /\ v.sv = "Object"
       /\ \A p \in Without(v.obj, Z1K1) : Lifts(p[2])
       /\ ArgumentsLift(The(Find(v.obj, Z1K1))[2])

\* type lifting has just been applied to an array
LiftedArray == lastPass = "lift" /\ prev.sv = "Array"

\* the array has a head that reads as a type
HeadIsType == prev.items # <<>> /\ Interpretable(prev.items[1])

\* the parts of the array lift: the arguments of its type and its items
PartsLift ==
    /\ ArgumentsLift(prev.items[1])
    /\ \A i \in 2..Len(prev.items) : Lifts(prev.items[i])

\* the result: Array(T, items) with T the type of the head and the items
\* the liftings of the elements 2..n in their order
ArrayOfRest ==
    /\ ~IsPanic(form)
    /\ form.tf = "Array"
    /\ form.typ = Type_try_from(prev.items[1])
    /\ Len(form.items) = Len(prev.items) - 1
    /\ \A i \in DOMAIN form.items :
          form.items[i] = TypedForm_from(prev.items[i + 1])

\* C14 (as the code has it): type lifting of an array succeeds exactly when
\* the array is non-empty, its first element reads as a type, and the
\* lifting of the arguments of that type and of every later element
\* succeeds; on success the result is Array(T, items) with the n-1 lifted
\* elements 2..n in order; otherwise the conversion aborts without a value.
C14_ArrayLifting ==
    LiftedArray =>
        IF HeadIsType /\ PartsLift THEN ArrayOfRest ELSE IsPanic(form)

\* C14 (as stated): success exactly when the array is non-empty and its
\* first element reads as a type
C14_HeadDecides ==
    LiftedArray => IF HeadIsType THEN ArrayOfRest ELSE IsPanic(form)

\* an array of two items under a type with arguments has been lifted
C14_ArrayLifted ==
    ~ (/\ LiftedArray /\ HeadIsType /\ PartsLift
       /\ prev.items[1].sv = "Object"
       /\ Len(prev.items) = 3
       /\ prev.items[2] # prev.items[3])


\* the variant of a node of a TypedForm or of an IntermediateForm
VariantOf(x) == IF "tf" \in DOMAIN x THEN x.tf ELSE x.f

\* some key of the object is Z1K1, plain or labelled
HasTypeKey(obj) == \E p \in obj : is_labelled(p[1], Z1K1)

RECURSIVE TypesLifted(_)
\* no TypedObject of the tree, and no plain Object, has a field whose key is
\* Z1K1; the arguments of the types are trees of the same kind
TypesLiftedIn(typ) ==
    typ.k = "WithArgs" => \A p \in typ.args : TypesLifted(p[2])
TypesLifted(x) ==
    IF VariantOf(x) \in {"StringType", "LabelledNode"} THEN TRUE
    ELSE IF VariantOf(x) \in {"Array", "TypedArray"}
    THEN /\ "typ" \in DOMAIN x => TypesLiftedIn(x.typ)
         /\ \A i \in DOMAIN x.items : TypesLifted(x.items[i])
    ELSE /\ ~HasTypeKey(x.obj)
         /\ \A p \in x.obj : TypesLifted(p[2])
         /\ VariantOf(x) = "TypedObject" => TypesLiftedIn(x.typ)

-----------------------------------------------------------------------------
(* compact_value.rs: the arguments of a type in the compact form *)

\* a typed object whose type has arguments has just been converted
ConvertedWithArgs ==
    /\ lastPass = "convert" /\ ~IsPanic(form)
    /\ prev.f = "TypedObject" /\ prev.typ.k = "WithArgs"

\* the converted fields and one more entry under the plain key name, which
\* holds the object of the converted arguments
FieldsAndArgsUnder(name) ==
    CV_Object(CompactValue_from(IF_Object(prev.obj)).obj
                \cup {<<CK_StringType(String(name), <<>>),
                        CompactValue_from(IF_Object(prev.typ.args))>>})

\* C16: the conversion of TypedObject(WithArgs(t, args), fields) to
\* CompactValue gives the converted fields and exactly one more entry,
\* whose key is the literal string "Z1K1" without annotations and whose
\* value is the object of the converted args.
C16_ArgsUnderZ1K1 ==
    ConvertedWithArgs => \E p \in form.obj : p[2] = FieldsAndArgsUnder(Z1K1)


\* compress_simple_classes has just been applied to an object
CompressedObject ==
    lastPass = "compress_simple_classes" /\ ~IsPanic(form) /\ prev.cv = "Object"

\* the value of a field after its own compression is an object of one entry
SingleEntry(v) ==
    /\ compress_simple_classes(v).cv = "Object"
    /\ Cardinality(compress_simple_classes(v).obj) = 1

\* the key of kind and name of outer_key, annotated with outer_types, then
\* the name of inner_key if it has one, then inner_types
MergedKey(outer_key, inner_key) ==
    [outer_key EXCEPT !.types =
        IF inner_key.ck = "StringType"
        THEN outer_key.types \o <<inner_key.st>> \o inner_key.types
        ELSE outer_key.types \o inner_key.types]

\* what the rule makes of a field: the merged key with the inner value, or
\* a field of the same key
FollowsRule(p, q) ==
    IF SingleEntry(p[2])
    THEN \E inner \in compress_simple_classes(p[2]).obj :
            q = <<MergedKey(p[1], inner[1]), inner[2]>>
    ELSE q[1] = p[1]

\* C17: compress_simple_classes turns every field (outer_key, v) whose v,
\* after its own compression, is an object with exactly one entry
\* (inner_key, inner_v) into the field with value inner_v and the key of the
\* kind and name of outer_key annotated with outer_types ++ [inner_name] ++
\* inner_types for inner_key = StringType(inner_name, inner_types) and with
\* outer_types ++ inner_types for inner_key = Transient(inner_types); every
\* other field keeps its key; the result has no other fields.
C17_MergeRule ==
    CompressedObject =>
        /\ \A p \in prev.obj : \E q \in form.obj : FollowsRule(p, q)
        /\ \A q \in form.obj : \E p \in prev.obj : FollowsRule(p, q)

\* a field with annotations took the name and the annotations of the only
\* key of its value
C17_Merged ==
    ~ (/\ CompressedObject
       /\ \E p \in prev.obj :
             /\ SingleEntry(p[2])
             /\ p[1].types # <<>>
             /\ \E inner \in compress_simple_classes(p[2]).obj :
                   inner[1].ck = "StringType")


-----------------------------------------------------------------------------
(* labelize.rs: the parallel lookups of labelize *)

\* bound: the number of elements of an array whose lookups run in parallel
MaxChildren == 3

\* the documents read: arrays of strings, an array in an array, objects
JoinDocuments ==
    LET strings == {JStr(Z4), JStr(Z6), JStr(Txt("x"))}
        inner == JArr(<<JStr(Z6), JStr(Z4)>>)
    IN  {JArr(items) : items \in SeqsUpTo(strings, MaxChildren)}
          \cup {JArr(<<inner, JStr(Z4)>>), JArr(<<JStr(Z4), inner>>),
                JArr(<<JArr(<<>>), JStr(Z4), inner>>),
                JObj({<<Z1K1, JStr(Z4)>>, <<K1of(Z4), JStr(Txt("x"))>>}),
                JObj({<<K1of(Z4), inner>>, <<K2of(Z4), JStr(Z6)>>}),
                JArr(<<JObj({<<K1of(Z4), JStr(Z6)>>}), JStr(Z4)>>)}

RECURSIVE Flatten(_)
\* the concatenation of a sequence of sequences
Flatten(seqs) ==
    IF seqs = <<>> THEN <<>> ELSE Head(seqs) \o Flatten(Tail(seqs))

RECURSIVE Entries(_)
\* the entries of a JSON object as into_iter() yields them, by key
Entries(map) ==
    IF map = {} THEN <<>>
    ELSE LET first == CHOOSE p \in map :
                         \A q \in map : q = p \/ StrLess(p[1], q[1])
         IN  <<first>> \o Entries(map \ {first})

RECURSIVE Lookups(_)
\* the strings a document has _labelize_wrapped called on, in the order in
\* which labelize makes the futures: an element after the one before it, the
\* key of an entry before its value
Lookups(v) ==
    IF v.j = "String" THEN <<v.str>>
    ELSE IF v.j = "Array"
    THEN Flatten([i \in DOMAIN v.items |-> Lookups(v.items[i])])
    ELSE Flatten([i \in DOMAIN Entries(v.map) |->
                     <<Entries(v.map)[i][1]>> \o Lookups(Entries(v.map)[i][2])])

\* the number of lookups made for the elements before the i-th
Before(items, i) == Len(Flatten([j \in 1..(i - 1) |-> Lookups(items[j])]))

\* when the future of v, whose lookups are base+1.., is complete: the place
\* in order of the last of its lookups, 0 when it has none
FinishTime(v, base) ==
    LET mine == (base + 1)..(base + Len(Lookups(v)))
        places == {i \in DOMAIN order : order[i] \in mine}
    IN  IF places = {} THEN 0 ELSE CHOOSE i \in places : \A j \in places : j <= i

\* the futures 1..n handed to join_all in the order of their completion,
\* given when each is complete
Completion(finish) ==
    LET earlier(i, j) == finish[i] < finish[j] \/ (finish[i] = finish[j] /\ i < j)
        rank(i) == Cardinality({j \in DOMAIN finish : earlier(j, i)}) + 1
    IN  [r \in DOMAIN finish |-> CHOOSE i \in DOMAIN finish : rank(i) = r]

\* a collection of the outputs in the order in which they arrive
AsCompleted(outputs, completed) ==
    [i \in DOMAIN outputs |-> outputs[completed[i]]]

\* future::join_all: the outputs in the order of the futures handed to it
join_all(outputs, completed) == outputs

RECURSIVE Joined(_, _)
\* the value labelize(v) returns once its lookups, base+1.., are complete
Joined(v, base) ==
    IF v.j = "String" THEN SV_StringType(slots[base + 1])
    ELSE IF v.j = "Array"
    THEN SV_Array(join_all(
             [i \in DOMAIN v.items |->
                 Joined(v.items[i], base + Before(v.items, i))],
             Completion([i \in DOMAIN v.items |->
                 FinishTime(v.items[i], base + Before(v.items, i))])))
    ELSE LET entries == Entries(v.map)
             values == [i \in DOMAIN entries |-> JArr(<<JStr(entries[i][1]), entries[i][2]>>)]
             pairs == join_all(
                 [i \in DOMAIN entries |->
                     <<slots[base + Before(values, i) + 1],
                       Joined(entries[i][2], base + Before(values, i) + 1)>>],
                 Completion([i \in DOMAIN entries |->
                     FinishTime(values[i], base + Before(values, i))]))
         IN  SV_Object({pairs[i] : i \in DOMAIN pairs})

\* labelize(v) is called: its lookups are made, none is complete
InitJoin ==
    /\ InitResolver
    /\ InitRenderer
    /\ form \in JoinDocuments
    /\ world \in {"offline", "online"}
    /\ slots = [l \in DOMAIN Lookups(form) |-> NoOut]
    /\ order = <<>>
    /\ prev = NoOut /\ lastPass = "none" /\ steps = 0 /\ changed = {}
    /\ route = <<>>

\* the lookup l completes, whichever the others that are complete
Complete(l) ==
    /\ lastPass = "none"
    /\ slots[l] = NoOut
    /\ slots' = [slots EXCEPT ![l] = Labelled(Lookups(form)[l], world)]
    /\ order' = Append(order, l)
    /\ UNCHANGED <<form, prev, lastPass, steps, changed, route, world,
                   resolverVars, rendererVars>>

\* every lookup is complete: labelize returns
Join ==
    /\ lastPass = "none"
    /\ \A l \in DOMAIN slots : slots[l] # NoOut
    /\ form' = Joined(form, 0)
    /\ prev' = form
    /\ lastPass' = "join"
    /\ UNCHANGED <<steps, changed, route, joinVars, resolverVars, rendererVars>>

NextJoin ==
    \/ \E l \in DOMAIN slots : Complete(l)
    \/ Join

SpecJoin == InitJoin /\ [][NextJoin]_vars

\* C18: for a fixed document and fixed upstream responses the labeler's
\* SimpleValue is the same for every order in which the parallel lookups
\* complete: it is the value of labelize read off the document, element i
\* of an array the labelling of element i, the entries of an object those
\* of its keys and values.
C18_OrderHidden ==
    lastPass = "join" =>
        /\ form = labelize(prev, Resolved(prev, world))
        /\ prev.j = "Array" =>
              \A i \in DOMAIN prev.items :
                  form.items[i] =
                      labelize(prev.items[i], Resolved(prev.items[i], world))

\* an array was labelled whose last lookup completed first, with labels
C18_LastCameFirst ==
    ~ (/\ lastPass = "join"
       /\ world = "online"
       /\ prev.j = "Array"
       /\ Len(order) >= 3
       /\ order[1] = Len(order)
       /\ form.items[1] # form.items[Len(form.items)])


-----------------------------------------------------------------------------
(* labelize.rs: what the fetcher makes of a failure *)

\* C19: the fetcher reports failures as error values, not aborts: whatever
\* the upstream delivered (a transport failure, a body that cannot be read
\* or parsed, a document lacking query, wikilambdaload_zobjects, the
\* identifier or data), a finished _fetch has returned Ok or Err.
C19_FailuresAreValues ==
    \A f \in DOMAIN futures : \A res \in futures[f].result : ~IsPanic(res)


-----------------------------------------------------------------------------
(* typed_form.rs: the type of a type *)

\* the value under Z1K1 of an object that has the key
TypeOf(v) == The(Find(v.obj, Z1K1))[2]

RECURSIVE Innermost(_)
\* the string at the end of the chain of Z1K1 values of a descriptor
Innermost(v) == IF v.sv = "StringType" THEN v.st ELSE Innermost(TypeOf(v))

\* an object has just been lifted whose type descriptor has for Z1K1 a
\* descriptor with arguments of its own
LiftedNestedType ==
    /\ lastPass = "lift" /\ ~IsPanic(form)
    /\ prev.sv = "Object" /\ HasTypeKey(prev.obj)
    /\ TypeOf(prev).sv = "Object" /\ HasTypeKey(TypeOf(prev).obj)
    /\ TypeOf(TypeOf(prev)).sv = "Object"

\* the arguments of the inner descriptor, as Type::try_from gives them
InnerArgs == Type_try_from(TypeOf(TypeOf(prev))).args

\* the arguments of the outer descriptor, lifted
OwnArgs ==
    {<<p[1], TypedForm_from(p[2])>> : p \in Without(TypeOf(prev).obj, Z1K1)}

\* C20 (as the code has it): when the Z1K1 value of a type descriptor is
\* itself a descriptor with arguments, the outer Type::WithArgs has the
\* innermost string as its identifier, and its arguments are the outer
\* descriptor's own fields without Z1K1 and one entry under the key Z1K1
\* that holds, as a plain Object, the inner descriptor's arguments without
\* their Z1K1: the inner arguments stay under Z1K1.
C20_InnerArgsUnderZ1K1 ==
    LiftedNestedType =>
        /\ form.typ.k = "WithArgs"
        /\ form.typ.name = Innermost(TypeOf(prev))
        /\ form.typ.args =
              OwnArgs \cup {<<The(Find(TypeOf(prev).obj, Z1K1))[1],
                              TF_Object(Without(InnerArgs, Z1K1))>>}
        /\ ~HasTypeKey(OwnArgs) /\ ~HasTypeKey(Without(InnerArgs, Z1K1))

\* C20 (as stated): the outer type has the innermost string as identifier,
\* no key Z1K1 among its arguments, and the inner descriptor's arguments
\* among them
C20_InnerArgsMerged ==
    LiftedNestedType =>
        /\ form.typ.k = "WithArgs"
        /\ form.typ.name = Innermost(TypeOf(prev))
        /\ ~HasTypeKey(form.typ.args)
        /\ Without(InnerArgs, Z1K1) \subseteq form.typ.args

\* a function type written with references, with labelled keys, was lifted
C20_NestedLifted ==
    ~ (/\ LiftedNestedType
       /\ OwnArgs # {} /\ Without(InnerArgs, Z1K1) # {}
       /\ \E p \in form.typ.args : p[1].t = "LabelledNode")


-----------------------------------------------------------------------------
(* intermediate_form.rs: what the passes leave behind *)

RECURSIVE Remains(_, _)
\* some TypedObject of type Simple(z) is in the tree: x itself, a child of an
\* array or of an object, or a node inside the arguments of a type
RemainsIn(typ, z) ==
    typ.k = "WithArgs" /\ \E p \in typ.args : Remains(p[2], z)
Remains(x, z) ==
    IF x.f \in {"StringType", "LabelledNode"} THEN FALSE
    ELSE IF x.f = "Array" THEN \E i \in DOMAIN x.items : Remains(x.items[i], z)
    ELSE IF x.f = "TypedArray"
    THEN RemainsIn(x.typ, z) \/ \E i \in DOMAIN x.items : Remains(x.items[i], z)
    ELSE IF x.f = "Object" THEN \E p \in x.obj : Remains(p[2], z)
    ELSE \/ x.typ.k = "Simple" /\ is_labelled(x.typ.name, z)
         \/ RemainsIn(x.typ, z)
         \/ \E p \in x.obj : Remains(p[2], z)

\* C21: in the result of compress_reference no TypedObject whose type is
\* Simple(Z9) remains anywhere in the tree, neither among the children of
\* arrays and objects nor inside the arguments of any type.
C21_NoReferenceLeft ==
    Applied("compress_reference") => ~Remains(form, Z9)

\* C22: in the result of compress_string no TypedObject of type Simple(Z6)
\* remains anywhere, the arguments of parameterised types included; each has
\* been replaced by the plain string under its Z6K1.
C22_NoStringLeft ==
    Applied("compress_string") => ~Remains(form, Z6)


RECURSIVE HasTypedItem(_)
\* some typed array of the tree, the arguments of the types included, has a
\* TypedObject as a direct item
HasTypedItemIn(typ) ==
    typ.k = "WithArgs" /\ \E p \in typ.args : HasTypedItem(p[2])
HasTypedItem(x) ==
    IF x.f \in {"StringType", "LabelledNode"} THEN FALSE
    ELSE IF x.f = "Array"
    THEN \E i \in DOMAIN x.items : HasTypedItem(x.items[i])
    ELSE IF x.f = "TypedArray"
    THEN \/ HasTypedItemIn(x.typ)
         \/ \E i \in DOMAIN x.items :
               x.items[i].f = "TypedObject" \/ HasTypedItem(x.items[i])
    ELSE IF x.f = "Object" THEN \E p \in x.obj : HasTypedItem(p[2])
    ELSE HasTypedItemIn(x.typ) \/ \E p \in x.obj : HasTypedItem(p[2])

\* C23: in the result of drop_array_item_types no typed array anywhere in
\* the tree has a TypedObject as a direct item, the typed arrays inside the
\* arguments of the type of a TypedObject and of a typed array included.
C23_NoTypedItems ==
    Applied("drop_array_item_types") => ~HasTypedItem(form)


\* one of the three passes that collapse a type tag, by its name
Pass(name, x) ==
    IF name = "compress_reference" THEN compress_reference(x)
    ELSE IF name = "compress_string" THEN compress_string(x)
    ELSE compress_monolingual(x)

\* first one pass, then, if it returned, another
Both(first, second, x) ==
    The({IF IsPanic(y) THEN Panic ELSE Pass(second, y) : y \in {Pass(first, x)}})

CollapsingPasses ==
    {"compress_reference", "compress_string", "compress_monolingual"}

\* C24: for any two of compress_reference, compress_string and
\* compress_monolingual and every IntermediateForm, applying the two passes
\* in either order completes and gives the same tree.
C24_PassesCommute ==
    StageOf(form) = "intermediate" =>
        \A p \in CollapsingPasses : \A q \in CollapsingPasses \ {p} :
            /\ ~IsPanic(Both(p, q, form))
            /\ Both(p, q, form) = Both(q, p, form)


-----------------------------------------------------------------------------
(* compact_value.rs: where the conversion puts the types *)

\* a value that carries a type: a TypedObject or a typed array
IsTyped(v) == v.f \in {"TypedObject", "TypedArray"}

\* the field q of the result is what the field p of the object became: its
\* key is the key of p annotated with the identifier of the type of its
\* value, if that has one, and the value is an object or an array without a
\* type
FieldOf(p, q) ==
    /\ q[1] = CK_StringType(p[1], IF IsTyped(p[2]) THEN <<p[2].typ.name>>
                                  ELSE <<>>)
    /\ p[2].f = "TypedObject" => q[2].cv = "Object"
    /\ p[2].f = "TypedArray" => q[2].cv = "Array"

\* an IntermediateForm has just been converted to CompactValue
JustConverted == lastPass = "convert" /\ ~IsPanic(form)

\* C25: the conversion of an Object makes of every field (k, v) whose v is a
\* TypedObject or a typed array of type identifier t a field whose key is k
\* annotated with exactly [t] and whose value is an untyped object or array,
\* and of every other field one of key k with no annotation; a TypedObject
\* with no enclosing key becomes an object of exactly one entry, whose key
\* is Transient([t]).
C25_TypesOnKeys ==
    /\ JustConverted /\ prev.f = "Object" =>
          /\ form.cv = "Object"
          /\ \A p \in prev.obj : \E q \in form.obj : FieldOf(p, q)
          /\ \A q \in form.obj : \E p \in prev.obj : FieldOf(p, q)
          /\ Cardinality(form.obj) = Cardinality(prev.obj)
    /\ JustConverted /\ prev.f = "TypedObject" =>
          /\ form.cv = "Object"
          /\ Cardinality(form.obj) = 1
          /\ \A q \in form.obj :
                q[1] = CK_Transient(<<prev.typ.name>>) /\ q[2].cv = "Object"

\* an object with a typed object, a typed array and a string under its keys
\* has been converted
C25_MixedObjectConverted ==
    ~ (/\ JustConverted /\ prev.f = "Object"
       /\ \E p \in prev.obj : p[2].f = "TypedObject"
       /\ \E p \in prev.obj : p[2].f = "TypedArray"
       /\ \E p \in prev.obj : p[2].f = "StringType")


\* C26: drop_array_item_types loses no type information: every item type it
\* removes equals the element type recorded on the enclosing array, and an
\* item whose own type differs from the array's element type keeps its type.
C26_OnlyRepeatedTypesDropped ==
    Applied("drop_array_item_types") /\ prev.f = "TypedArray" =>
        \A i \in DOMAIN prev.items :
            prev.items[i].f = "TypedObject" /\ prev.items[i].typ # prev.typ
                => /\ form.items[i].f = "TypedObject"
                   /\ form.items[i].typ.name = prev.items[i].typ.name


-----------------------------------------------------------------------------
(* labelize.rs: one identifier at several places of a document *)

\* C27: the calls of _labelize_wrapped that one run of the labeler makes
\* for the same string return the same StringType, whatever the order of
\* the lookups and whatever the upstream answers: the string is never
\* labelled at one occurrence and left plain at another.
C27_SameResultEverywhere ==
    \A r, q \in Done : r.s = q.s => r.out = q.out

-----------------------------------------------------------------------------
(* compact_value.rs: the entries of a rendered object *)

\* C28: choose_lang renders an object to a JSON object with as many
\* entries as the object has pairs: no two keys of one object, a plain
\* string and a labelled node among them, are rendered to the same string.
C28_NoEntryLost ==
    Responded /\ prev.cv = "Object" =>
        Cardinality(form.map) = Cardinality(prev.obj)

-----------------------------------------------------------------------------
(* compact_value.rs: the keys of the objects along the route *)

RECURSIVE Functional(_)
\* no object of the tree x, the arguments of its types included, holds two
\* pairs with one key
Functional(x) ==
    /\ "obj" \in DOMAIN x =>
           /\ \A p, q \in x.obj : p[1] = q[1] => p = q
           /\ \A p \in x.obj : Functional(p[2])
    /\ "items" \in DOMAIN x =>
           \A i \in DOMAIN x.items : Functional(x.items[i])
    /\ "typ" \in DOMAIN x /\ x.typ.k = "WithArgs" =>
           /\ \A p, q \in x.typ.args : p[1] = q[1] => p = q
           /\ \A p \in x.typ.args : Functional(p[2])

\* C29: whatever the request body, in every form the route takes the
\* document through, from the SimpleValue of labelize to the CompactValue
\* of the conversion with its synthetic key of type arguments, every object
\* is functional: no two of its pairs have the same key.
C29_ObjectsFunctional ==
    StageOf(form) \in {"simple", "typed", "intermediate", "compact"}
        => Functional(form)

-----------------------------------------------------------------------------
(* labelize.rs: the identifier of a result *)

\* the strings a later stage asks is_labelled about, and the inputs
Compared == Inputs \cup {Z1K1, Z6, Z9, Z11, Z12}

\* C30: whatever the upstream answered, the StringType that a call of
\* _labelize_wrapped(s) returns is labelled s and nothing else:
\* is_labelled(t) is true of it for t = s and false for every other t.
C30_IdentifierKept ==
    \A r \in Done : ~IsPanic(r.out) =>
        /\ is_labelled(r.out, r.s)
        /\ \A t \in Compared : t # r.s => ~is_labelled(r.out, t)

\* a global key was looked up with success
C30_KeyLabelled ==
    \E r \in Done : /\ r.s = K1of(Z4)
                    /\ ~IsPanic(r.out)
                    /\ r.out.t = "LabelledNode"
                    /\ is_labelled(r.out, K1of(Z4))

=============================================================================
